---------------------------- MODULE Spec2Model ----------------------------
(***************************************************************************)
(* Model of the page scripts: the Slider / carousel (src/js/slider.js),    *)
(* the Modal and ModalManager classes (src/js/lazy-load.js), App's own     *)
(* modal helpers (src/js/main.js), the validators of Utils and the        *)
(* contact form with its submission (src/js/utils.js,                      *)
(* src/unnamed/part_000), and Navigation: the theme switch, the mobile     *)
(* menu and the throttled scroll and debounced resize listeners            *)
(* (src/js/navigation.js, src/js/utils.js), the confirm and alert dialogs  *)
(* of the modal manager, and the lazily loaded images under the observers  *)
(* of LazyLoader and of App (src/js/lazy-load.js, src/js/main.js).         *)
(*                                                                         *)
(* The JavaScript is single threaded: every event handler and every timer  *)
(* callback runs to completion, so each of them is one atomic action.      *)
(* The handlers themselves (goToSlide, next, prev, ...) are operators on   *)
(* the record of the slider's fields, so that a handler that calls another *)
(* handler is the composition of the two operators.  A call that goToSlide *)
(* drops because of the transition lock is a step that changes nothing.    *)
(* The slideChange events dispatched so far are kept in a log; the         *)
(* handlers that can dispatch one are enabled while the log has room.      *)
(*                                                                         *)
(* Each component has a specification of its own, in which the variables   *)
(* of the other components keep the value they have on a page without      *)
(* those components.                                                       *)
(***************************************************************************)
EXTENDS Integers, Sequences, FiniteSets, TLC

(* ------------------------------ bounds -------------------------------- *)
MaxSlides == 3          \* number of .slider__slide elements is 1..MaxSlides
MaxScroll == 2          \* options.slidesToScroll is 1..MaxScroll
MaxEvents == 3          \* length of the log of dispatched slideChange events

(* ------------------------- program constants -------------------------- *)
SwipeThreshold == 50    \* options.swipeThreshold
Speed == 300            \* options.speed, delay of the lock release timer
RestoreDelay == 50      \* delay of the timer that restores the transition
SlideWidth == 100       \* this.slides[0].offsetWidth, fixed slide width

\* pageX of the pointer events; the differences cover 0, below, equal to
\* and above SwipeThreshold, in both directions
PageXs == {0, 50, 75}

VARIABLES
    slider,         \* fields of the Slider object, the track's style, the
                    \* pending timers and the log of dispatched events
    options,        \* this.options
    drag,           \* closure variables of setupDragEvents
    cursor,         \* this.track.style.cursor
    hovering,       \* the last of mouseenter / mouseleave was a mouseenter
    gesture,        \* history of the pointer gesture: its phase, and
                    \* this.currentSlide when handleStart last ran
    responsive,     \* this.options.responsive, the list of breakpoint rules
    windowWidth,    \* window.innerWidth
    modals,         \* ModalManager.modals: id -> fields of the Modal object
    focus,          \* document.activeElement
    bodyOverflow,   \* document.body.style.overflow
    modalLog,       \* the modalOpen / modalClose events dispatched so far
    field,          \* the contact form field being edited
    form,           \* the contact form: its fields with their error marks,
                    \* its submit button and the last submit event
    theme,          \* local storage item 'theme', the data-theme attribute
                    \* and what the theme switch depends on
    nav,            \* the mobile menu and the scroll and resize listeners of
                    \* Navigation, with their timers and the clock
    images          \* the img[data-src] elements: attributes, classes, the
                    \* observers watching them and the preloads in flight

sliderVars == <<slider, options, drag, cursor, hovering, gesture>>
resizeVars == <<responsive, windowWidth>>
modalVars == <<modals, focus, bodyOverflow, modalLog>>
formVars == <<field, form>>
themeVars == <<theme, nav>>
lazyVars == <<images>>

\* the variables that no handler of the slider's user interface touches
pageVars == <<resizeVars, modalVars, formVars, themeVars, lazyVars>>

vars == <<sliderVars, resizeVars, modalVars, formVars, themeVars, lazyVars>>

Abs(n) == IF n < 0 THEN 0 - n ELSE n

(* shorthands for the fields the properties are about *)
currentSlide == slider.currentSlide
totalSlides == slider.totalSlides
isAnimating == slider.isAnimating
events == slider.events

(* ----------------------------- handlers ------------------------------- *)

\* mutant: updateActiveStates that never removes the active class
updateActiveStates_AddOnly(s) ==
    [s EXCEPT !.activeSlides = @ \cup ({s.currentSlide} \cap 0..(s.totalSlides - 1)),
              !.activeDots = @ \cup ({s.currentSlide} \cap 0..(s.totalSlides - 1))]

\* updateActiveStates: the indices of this.slides (the real slides, the
\* NodeList is taken before cloning) that carry the active class
updateActiveStates(s) ==
    [s EXCEPT !.activeSlides = {i \in 0..(s.totalSlides - 1) : i = s.currentSlide},
              !.activeDots = {i \in 0..(s.totalSlides - 1) : i = s.currentSlide}]

\* mutant: goToSlide without the transition lock
goToSlide_NoLock(s, index) ==
    LET s1 == [s EXCEPT !.isAnimating = TRUE,
                        !.currentSlide = index,
                        !.transform = 0 - index * SlideWidth]
        s2 == updateActiveStates(s1)
    IN [s2 EXCEPT !.releaseTimers = @ + 1,
                  !.events = Append(@, index)]

\* mutant: goToSlide that takes the lock but never schedules its release
goToSlide_NoTimer(s, index) ==
    IF s.isAnimating THEN s
    ELSE LET s1 == [s EXCEPT !.isAnimating = TRUE,
                             !.currentSlide = index,
                             !.transform = 0 - index * SlideWidth]
             s2 == updateActiveStates(s1)
         IN [s2 EXCEPT !.events = Append(@, index)]

\* mutant: goToSlide that dispatches slideChange before it tests the lock
goToSlide_DispatchFirst(s, index) ==
    IF s.isAnimating THEN [s EXCEPT !.events = Append(@, s.currentSlide)]
    ELSE LET s1 == [s EXCEPT !.isAnimating = TRUE,
                             !.currentSlide = index,
                             !.transform = 0 - index * SlideWidth]
             s2 == updateActiveStates(s1)
         IN [s2 EXCEPT !.releaseTimers = @ + 1,
                       !.events = Append(@, index)]

goToSlide(s, index) ==
    IF s.isAnimating THEN s
    ELSE LET s1 == [s EXCEPT !.isAnimating = TRUE,
                             !.currentSlide = index,
                             !.transform = 0 - index * SlideWidth]
             s2 == updateActiveStates(s1)
         IN [s2 EXCEPT !.releaseTimers = @ + 1,
                       !.events = Append(@, index)]

\* mutant: next that wraps one slide too early
next_EarlyWrap(s) ==
    LET nextSlide == s.currentSlide + options.slidesToScroll
    IN goToSlide(s, IF nextSlide >= s.totalSlides - 1
                    THEN (IF options.infinite THEN 0 ELSE s.totalSlides - 1)
                    ELSE nextSlide)

\* mutant: next without the upper bound check
next_NoClamp(s) ==
    goToSlide(s, s.currentSlide + options.slidesToScroll)

\* mutant: next that wraps to the last slide instead of the first
next_WrapLast(s) ==
    LET nextSlide == s.currentSlide + options.slidesToScroll
    IN goToSlide(s, IF nextSlide >= s.totalSlides
                    THEN s.totalSlides - 1
                    ELSE nextSlide)

next(s) ==
    LET nextSlide == s.currentSlide + options.slidesToScroll
    IN goToSlide(s, IF nextSlide >= s.totalSlides
                    THEN (IF options.infinite THEN 0 ELSE s.totalSlides - 1)
                    ELSE nextSlide)

\* mutant: prev that always steps back by one slide
prev_ByOne(s) ==
    LET prevSlide == s.currentSlide - 1
    IN goToSlide(s, IF prevSlide < 0
                    THEN (IF options.infinite THEN s.totalSlides - 1 ELSE 0)
                    ELSE prevSlide)

prev(s) ==
    LET prevSlide == s.currentSlide - options.slidesToScroll
    IN goToSlide(s, IF prevSlide < 0
                    THEN (IF options.infinite THEN s.totalSlides - 1 ELSE 0)
                    ELSE prevSlide)

\* mutant: handleInfiniteLoop that only handles the clone after the last slide
handleInfiniteLoop_LastOnly(s) ==
    IF s.currentSlide >= s.totalSlides
    THEN LET s1 == goToSlide([s EXCEPT !.currentSlide = 0,
                                       !.transition = "none"], 0)
         IN [s1 EXCEPT !.restoreTimers = @ + 1]
    ELSE s

handleInfiniteLoop(s) ==
    IF s.currentSlide >= s.totalSlides
    THEN LET s1 == goToSlide([s EXCEPT !.currentSlide = 0,
                                       !.transition = "none"], 0)
         IN [s1 EXCEPT !.restoreTimers = @ + 1]
    ELSE IF s.currentSlide < 0
    THEN LET s1 == goToSlide([s EXCEPT !.currentSlide = s.totalSlides - 1,
                                       !.transition = "none"],
                             s.totalSlides - 1)
         IN [s1 EXCEPT !.restoreTimers = @ + 1]
    ELSE s

\* the callback of the setTimeout of goToSlide
releaseLock(s) ==
    LET s1 == [s EXCEPT !.isAnimating = FALSE, !.releaseTimers = @ - 1]
    IN IF options.infinite THEN handleInfiniteLoop(s1) ELSE s1

\* mutant: startAutoplay without the guard on a running interval
startAutoplay_NoGuard(s) ==
    [s EXCEPT !.autoplayInterval = TRUE, !.intervalTimers = @ + 1]

startAutoplay(s) ==
    IF s.autoplayInterval THEN s
    ELSE [s EXCEPT !.autoplayInterval = TRUE, !.intervalTimers = @ + 1]

\* mutant: stopAutoplay that forgets the handle but leaves the timer running
stopAutoplay_NoClear(s) ==
    IF s.autoplayInterval
    THEN [s EXCEPT !.autoplayInterval = FALSE]
    ELSE s

stopAutoplay(s) ==
    IF s.autoplayInterval
    THEN [s EXCEPT !.autoplayInterval = FALSE, !.intervalTimers = @ - 1]
    ELSE s

\* mutant: handleEnd that commits a step when |diff| reaches the threshold
handleEnd_AtThreshold(s, diff) ==
    IF Abs(diff) >= options.swipeThreshold
    THEN (IF diff > 0 THEN prev(s) ELSE next(s))
    ELSE goToSlide(s, s.currentSlide)

\* mutant: handleEnd with the two directions exchanged
handleEnd_Reversed(s, diff) ==
    IF Abs(diff) > options.swipeThreshold
    THEN (IF diff > 0 THEN next(s) ELSE prev(s))
    ELSE goToSlide(s, s.currentSlide)

\* destroy: stopAutoplay, the arrows and the dots leave the document (the
\* field destroyed), the track's transform and the slides' active class are
\* reset; no listener and no timer is removed
destroy(s) ==
    [stopAutoplay(s) EXCEPT !.destroyed = TRUE,
                            !.transform = 0,
                            !.activeSlides = {}]

\* handleEnd once isDragging is known to hold: diff = currentX - startX
handleEnd(s, diff) ==
    IF Abs(diff) > options.swipeThreshold
    THEN (IF diff > 0 THEN prev(s) ELSE next(s))
    ELSE goToSlide(s, s.currentSlide)

(* ------------------- pages without a component ----------------------- *)

\* no element holds the keyboard focus: document.activeElement is null, or
\* is the body, which focus() cannot focus
NoElement == <<"none", 0>>

\* options.responsive keeps its default, the empty list: setupEvents then
\* registers no resize listener
NoResponsive == responsive = <<>> /\ windowWidth = 1024

\* the document holds no [data-modal] element
NoModals ==
    /\ modals = <<>>
    /\ focus = NoElement
    /\ bodyOverflow = ""
    /\ modalLog = <<>>

\* the document holds no #contact-form
NoForm ==
    /\ field = [name |-> "", type |-> "", value |-> <<>>, required |-> FALSE,
                error |-> FALSE]
    /\ form = [fields |-> <<>>, disabled |-> FALSE, sending |-> FALSE,
               defaultPrevented |-> FALSE]

\* the document holds no navigation bar: initTheme never runs
NoTheme == theme = [phase |-> "absent"]

\* the menu and the scroll and resize listeners of Navigation are left aside
NoNav == nav = [phase |-> "absent"]

\* the document holds no [data-slider] element
\* a page without lazily loaded images
NoImages == images = <<>>

NoSlider ==
    /\ slider = [currentSlide |-> 0, totalSlides |-> 0, isAnimating |-> FALSE,
                 autoplayInterval |-> FALSE, transform |-> 0, transition |-> "",
                 activeSlides |-> {}, activeDots |-> {}, events |-> <<>>,
                 releaseTimers |-> 0, restoreTimers |-> 0, intervalTimers |-> 0,
                 destroyed |-> FALSE]
    /\ options = [infinite |-> TRUE, slidesToScroll |-> 1,
                  autoplay |-> FALSE, pauseOnHover |-> TRUE,
                  swipeThreshold |-> SwipeThreshold, speed |-> Speed]
    /\ drag = [startX |-> 0, currentX |-> 0, isDragging |-> FALSE]
    /\ cursor = ""
    /\ hovering = FALSE
    /\ gesture = [phase |-> "none", pressSlide |-> 0]

(* ---------------------------- initial state --------------------------- *)

\* the fields set by the constructor, with totalSlides as found by init()
constructed(n) ==
    [currentSlide |-> 0, totalSlides |-> n, isAnimating |-> FALSE,
     autoplayInterval |-> FALSE,
     transform |-> 0, transition |-> "",
     activeSlides |-> {}, activeDots |-> {},
     events |-> <<>>,
     releaseTimers |-> 0, restoreTimers |-> 0, intervalTimers |-> 0,
     destroyed |-> FALSE]

\* init(): goToSlide(0), then startAutoplay() if options.autoplay
init(n, autoplay) ==
    LET s1 == goToSlide(constructed(n), 0)
    IN IF autoplay THEN startAutoplay(s1) ELSE s1

Init ==
    /\ \E inf \in BOOLEAN, sc \in 1..MaxScroll, ap \in BOOLEAN, ph \in BOOLEAN :
          \* pauseOnHover is read only together with autoplay (setupEvents)
          /\ (~ap => ph)
          /\ options = [infinite |-> inf, slidesToScroll |-> sc,
                        autoplay |-> ap, pauseOnHover |-> ph,
                        swipeThreshold |-> SwipeThreshold, speed |-> Speed]
    /\ \E n \in 1..MaxSlides : slider = init(n, options.autoplay)
    /\ drag = [startX |-> 0, currentX |-> 0, isDragging |-> FALSE]
    /\ cursor = ""
    /\ hovering = FALSE
    /\ gesture = [phase |-> "none", pressSlide |-> 0]
    /\ NoResponsive /\ NoModals /\ NoForm /\ NoTheme /\ NoNav /\ NoImages

(* ------------------------------ actions ------------------------------- *)

\* the log of dispatched events has room for one more entry
CanLog == Len(slider.events) < MaxEvents

ArrowNextClick ==
    /\ ~slider.destroyed
    /\ CanLog
    /\ slider' = next(slider)
    /\ UNCHANGED <<options, drag, cursor, hovering, gesture, pageVars>>

ArrowPrevClick ==
    /\ ~slider.destroyed
    /\ CanLog
    /\ slider' = prev(slider)
    /\ UNCHANGED <<options, drag, cursor, hovering, gesture, pageVars>>

DotClick(i) ==
    /\ ~slider.destroyed
    /\ CanLog
    /\ i \in 0..(slider.totalSlides - 1)
    /\ slider' = goToSlide(slider, i)
    /\ UNCHANGED <<options, drag, cursor, hovering, gesture, pageVars>>

KeyArrowRight ==
    /\ CanLog
    /\ slider' = next(slider)
    /\ UNCHANGED <<options, drag, cursor, hovering, gesture, pageVars>>

KeyArrowLeft ==
    /\ CanLog
    /\ slider' = prev(slider)
    /\ UNCHANGED <<options, drag, cursor, hovering, gesture, pageVars>>

\* the callback of the setInterval of startAutoplay
AutoplayTick ==
    /\ slider.intervalTimers > 0
    /\ CanLog
    /\ slider' = next(slider)
    /\ UNCHANGED <<options, drag, cursor, hovering, gesture, pageVars>>

\* the callback of the setTimeout of goToSlide; the restore timer of
\* handleInfiniteLoop is set in the same callback as the next release timer
\* and has the shorter delay, so it fires first
ReleaseTimer ==
    /\ slider.releaseTimers > 0
    /\ (RestoreDelay < options.speed => slider.restoreTimers = 0)
    /\ slider' = releaseLock(slider)
    /\ UNCHANGED <<options, drag, cursor, hovering, gesture, pageVars>>

\* the callback of the setTimeout of handleInfiniteLoop
RestoreTimer ==
    /\ slider.restoreTimers > 0
    /\ slider' = [slider EXCEPT !.transition = "transform",
                                !.restoreTimers = @ - 1]
    /\ UNCHANGED <<options, drag, cursor, hovering, gesture, pageVars>>

\* the mouseenter and mouseleave listeners exist only if
\* options.pauseOnHover && options.autoplay held in setupEvents
MouseEnter ==
    /\ options.pauseOnHover /\ options.autoplay
    /\ hovering' = TRUE
    /\ slider' = stopAutoplay(slider)
    /\ UNCHANGED <<options, drag, cursor, gesture, pageVars>>

MouseLeave ==
    /\ options.pauseOnHover /\ options.autoplay
    /\ hovering' = FALSE
    /\ slider' = startAutoplay(slider)
    /\ UNCHANGED <<options, drag, cursor, gesture, pageVars>>

\* mousedown / touchstart on the track
HandleStart(x) ==
    /\ drag' = [drag EXCEPT !.isDragging = TRUE, !.startX = x]
    /\ cursor' = "grabbing"
    /\ gesture' = [phase |-> "pressed", pressSlide |-> slider.currentSlide]
    /\ UNCHANGED <<slider, options, hovering, pageVars>>

\* mousemove on the document / touchmove on the track; the handler returns
\* at once unless isDragging
HandleMove(x) ==
    /\ drag.isDragging
    /\ drag' = [drag EXCEPT !.currentX = x]
    /\ slider' = [slider EXCEPT !.transform = x - drag.startX]
    /\ gesture' = [gesture EXCEPT !.phase = "moved"]
    /\ UNCHANGED <<options, cursor, hovering, pageVars>>

\* mouseup on the document / touchend on the track; the handler returns at
\* once unless isDragging
HandleEnd ==
    /\ drag.isDragging
    /\ CanLog
    /\ drag' = [drag EXCEPT !.isDragging = FALSE]
    /\ cursor' = "grab"
    /\ slider' = handleEnd(slider, drag.currentX - drag.startX)
    /\ gesture' = [phase |-> "none", pressSlide |-> 0]
    /\ UNCHANGED <<options, hovering, pageVars>>

\* a call of the public method goToSlide by the embedding page with the
\* index of one of the two clones
ApiGoToSlide(i) ==
    /\ i \in {0 - 1, slider.totalSlides}
    /\ Len(slider.events) + 2 <= MaxEvents
    /\ slider' = goToSlide(slider, i)
    /\ UNCHANGED <<options, drag, cursor, hovering, gesture, pageVars>>

Next ==
    \/ KeyArrowRight
    \/ KeyArrowLeft
    \/ AutoplayTick
    \/ ArrowNextClick
    \/ ArrowPrevClick
    \/ \E i \in 0..(MaxSlides - 1) : DotClick(i)
    \/ ReleaseTimer
    \/ MouseEnter
    \/ MouseLeave
    \/ \E x \in PageXs : HandleStart(x)
    \/ \E x \in PageXs : HandleMove(x)
    \/ HandleEnd

\* the events of the user interface only
Spec == Init /\ [][Next]_vars

\* a timer that is pending eventually fires
FairSpec == Spec /\ WF_vars(ReleaseTimer)

\* the user interface, and a page that calls goToSlide with a clone index
NextApi ==
    \/ Next
    \/ \E i \in (0 - 1)..MaxSlides : ApiGoToSlide(i)
    \/ RestoreTimer

SpecApi == Init /\ [][NextApi]_vars

FairSpecApi == SpecApi /\ WF_vars(ReleaseTimer) /\ WF_vars(RestoreTimer)

\* calls of the public methods destroy, startAutoplay and stopAutoplay by
\* the embedding page
ApiDestroy ==
    /\ slider' = destroy(slider)
    /\ UNCHANGED <<options, drag, cursor, hovering, gesture, pageVars>>

ApiStartAutoplay ==
    /\ slider' = startAutoplay(slider)
    /\ UNCHANGED <<options, drag, cursor, hovering, gesture, pageVars>>

ApiStopAutoplay ==
    /\ slider' = stopAutoplay(slider)
    /\ UNCHANGED <<options, drag, cursor, hovering, gesture, pageVars>>

NextLifecycle ==
    \/ Next
    \/ ApiDestroy
    \/ ApiStartAutoplay
    \/ ApiStopAutoplay

\* the user interface, and a page that stops, starts and destroys the slider
SpecLifecycle == Init /\ [][NextLifecycle]_vars

(* ----------------------- responsive breakpoints ---------------------- *)

MaxRules == 2           \* number of rules in options.responsive is 1..MaxRules

\* the width thresholds of the breakpoint rules, and the widths the window
\* is resized to: below, at, between and above the thresholds
Breakpoints == {480, 768}
WindowWidths == {320, 480, 600, 1024}

\* the settings of a rule: an object with some of the options' keys
SettingsSet ==
    {[slidesToScroll |-> 1], [slidesToScroll |-> 2], [infinite |-> FALSE],
     [slidesToScroll |-> 2, infinite |-> TRUE]}

Rules == [breakpoint : Breakpoints, settings : SettingsSet]

\* the lists of rules with different thresholds, in every order
RuleLists ==
    {rs \in UNION {[1..n -> Rules] : n \in 1..MaxRules} :
        \A i, j \in 1..Len(rs) : i # j => rs[i].breakpoint # rs[j].breakpoint}

\* Object.assign(target, source)
assign(target, source) ==
    [k \in DOMAIN target \cup DOMAIN source |->
        IF k \in DOMAIN source THEN source[k] ELSE target[k]]

\* the forEach of handleResize from rule i on: every rule whose threshold
\* is >= the window width is assigned, in the order of the list
RECURSIVE applyBreakpoints(_, _, _, _)
applyBreakpoints(o, rules, width, i) ==
    IF i > Len(rules) THEN o
    ELSE applyBreakpoints(IF width <= rules[i].breakpoint
                          THEN assign(o, rules[i].settings)
                          ELSE o,
                          rules, width, i + 1)

\* handleResize with window.innerWidth = width: the options and the slider
\* it leaves
handleResize(s, o, rules, width) ==
    [options |-> applyBreakpoints(o, rules, width, 1),
     slider |-> goToSlide(s, s.currentSlide)]

\* a slider constructed with a list of breakpoint rules; the constructor
\* does not call handleResize
InitResize ==
    /\ \E inf \in BOOLEAN, sc \in 1..MaxScroll :
          options = [infinite |-> inf, slidesToScroll |-> sc,
                     autoplay |-> FALSE, pauseOnHover |-> TRUE,
                     swipeThreshold |-> SwipeThreshold, speed |-> Speed]
    /\ \E n \in 1..MaxSlides : slider = init(n, options.autoplay)
    /\ drag = [startX |-> 0, currentX |-> 0, isDragging |-> FALSE]
    /\ cursor = ""
    /\ hovering = FALSE
    /\ gesture = [phase |-> "none", pressSlide |-> 0]
    /\ responsive \in RuleLists
    /\ windowWidth \in WindowWidths
    /\ NoModals /\ NoForm /\ NoTheme /\ NoNav /\ NoImages

\* the resize listener of the window, registered by setupEvents only if
\* options.responsive is not empty
Resize(width) ==
    /\ Len(responsive) > 0
    /\ CanLog
    /\ windowWidth' = width
    /\ options' = handleResize(slider, options, responsive, width).options
    /\ slider' = handleResize(slider, options, responsive, width).slider
    /\ UNCHANGED <<responsive, drag, cursor, hovering, gesture,
                   modalVars, formVars, themeVars, lazyVars>>

NextResize ==
    \/ \E width \in WindowWidths : Resize(width)
    \/ ReleaseTimer
    \/ ArrowNextClick

\* a slider with breakpoint rules: resizes, arrow clicks and the lock timer
SpecResize == InitResize /\ [][NextResize]_vars

\* the rules whose threshold is >= the window width
Matching(rules, width) ==
    {i \in 1..Len(rules) : width <= rules[i].breakpoint}

\* the first matching rule in ascending order of threshold
FirstAscending(rules, width) ==
    CHOOSE i \in Matching(rules, width) :
        \A j \in Matching(rules, width) :
            rules[i].breakpoint <= rules[j].breakpoint

(* ------------------------ modals and focus ---------------------------- *)

MaxElems == 1           \* elements a modal's markup holds besides its close button
MaxModalEvents == 3     \* length of the log of modalOpen / modalClose events

\* the ids of the [data-modal] elements, in document order; an id no modal
\* is registered under; the argument of a call made without an id
ModalIds == <<"a", "b">>
UnknownId == "x"
NoId == "undefined"
CallIds == {ModalIds[i] : i \in 1..Len(ModalIds)} \cup {UnknownId, NoId}

\* the focusable elements of the page outside the modals
PageElems == {<<"page", 1>>, <<"page", 2>>}

\* the elements of a modal's markup: for each, whether it is disabled
ContentSet == [1..MaxElems -> BOOLEAN]

Range(f) == {f[i] : i \in DOMAIN f}

\* the document as the modal code sees it
Doc ==
    [modals |-> modals, focus |-> focus, bodyOverflow |-> bodyOverflow,
     modalLog |-> modalLog]

\* element.focus(); the style sheet is not part of the sources, and focus()
\* is taken to succeed on every element
focusOn(d, e) == IF e = NoElement THEN d ELSE [d EXCEPT !.focus = e]

\* the elements of modal id the selector list matches, in document order:
\* the elements of the markup that are not disabled, then the close button
\* that createCloseButton appended
RECURSIVE enabledFrom(_, _, _)
enabledFrom(id, content, k) ==
    IF k > Len(content) THEN <<>>
    ELSE (IF content[k] THEN <<>> ELSE << <<id, k>> >>)
         \o enabledFrom(id, content, k + 1)

\* mutant: a selector list without :not([disabled])
updateFocusableElements_Disabled(id, m) ==
    [k \in 1..(Len(m.content) + 1) |-> <<id, k>>]

updateFocusableElements(id, m) ==
    enabledFrom(id, m.content, 1) \o << <<id, Len(m.content) + 1>> >>

\* new Modal(element): the constructor's fields, then init(); options.backdrop
\* is true unless the caller says otherwise, the other options are the defaults
modalInit(id, content, backdrop) ==
    LET m == [isOpen |-> FALSE,
              focusedElementBeforeOpen |-> NoElement,
              focusableElements |-> <<>>,
              options |-> [backdrop |-> backdrop],
              content |-> content,
              ariaHidden |-> "true",
              backdrops |-> IF backdrop THEN 1 ELSE 0,
              openClass |-> FALSE,
              backdropOpen |-> FALSE,
              focusTimers |-> 0,
              active |-> FALSE]
    IN [m EXCEPT !.focusableElements = updateFocusableElements(id, m)]

\* mutant: open without the isOpen guard, inserting the backdrop itself
open_Again(d, id) ==
    LET m == d.modals[id]
        m1 == [m EXCEPT !.focusedElementBeforeOpen = d.focus,
                        !.focusableElements = updateFocusableElements(id, m),
                        !.openClass = TRUE,
                        !.backdrops = IF m.options.backdrop THEN @ + 1 ELSE @,
                        !.backdropOpen = m.options.backdrop,
                        !.ariaHidden = "false",
                        !.focusTimers = @ + 1,
                        !.isOpen = TRUE]
    IN [d EXCEPT !.modals[id] = m1,
                 !.bodyOverflow = "hidden",
                 !.modalLog = Append(@, <<"modalOpen", id>>)]

\* mutant: open that stores the focused element again when already open
open_StoreAgain(d, id) ==
    LET m == d.modals[id]
    IN IF m.isOpen
       THEN [d EXCEPT !.modals[id].focusedElementBeforeOpen = d.focus]
       ELSE LET m1 == [m EXCEPT !.focusedElementBeforeOpen = d.focus,
                                !.focusableElements =
                                    updateFocusableElements(id, m),
                                !.openClass = TRUE,
                                !.backdropOpen = (m.backdrops > 0),
                                !.ariaHidden = "false",
                                !.focusTimers = @ + 1,
                                !.isOpen = TRUE]
            IN [d EXCEPT !.modals[id] = m1,
                         !.bodyOverflow = "hidden",
                         !.modalLog = Append(@, <<"modalOpen", id>>)]

\* Modal.open of the modal registered under id; options.onOpen is null
open(d, id) ==
    LET m == d.modals[id]
    IN IF m.isOpen THEN d
       ELSE LET m1 == [m EXCEPT !.focusedElementBeforeOpen = d.focus,
                                !.focusableElements =
                                    updateFocusableElements(id, m),
                                !.openClass = TRUE,
                                !.backdropOpen = (m.backdrops > 0),
                                !.ariaHidden = "false",
                                !.focusTimers = @ + 1,
                                !.isOpen = TRUE]
            IN [d EXCEPT !.modals[id] = m1,
                         !.bodyOverflow = "hidden",
                         !.modalLog = Append(@, <<"modalOpen", id>>)]

\* mutant: close that leaves the focus where it is
close_NoRestore(d, id) ==
    LET m == d.modals[id]
    IN IF ~m.isOpen THEN d
       ELSE [d EXCEPT !.modals[id] = [m EXCEPT !.openClass = FALSE,
                                               !.backdropOpen = FALSE,
                                               !.ariaHidden = "true",
                                               !.isOpen = FALSE],
                      !.bodyOverflow = "",
                      !.modalLog = Append(@, <<"modalClose", id>>)]

\* Modal.close of the modal registered under id; options.onClose is null
close(d, id) ==
    LET m == d.modals[id]
    IN IF ~m.isOpen THEN d
       ELSE LET d1 == [d EXCEPT !.modals[id] = [m EXCEPT !.openClass = FALSE,
                                                         !.backdropOpen = FALSE,
                                                         !.ariaHidden = "true",
                                                         !.isOpen = FALSE],
                                !.bodyOverflow = ""]
                d2 == focusOn(d1, m.focusedElementBeforeOpen)
            IN [d2 EXCEPT !.modalLog = Append(@, <<"modalClose", id>>)]

toggle(d, id) ==
    IF d.modals[id].isOpen THEN close(d, id) ELSE open(d, id)

\* mutant: trapFocus that wraps on Tab only
trapFocus_TabOnly(d, id, shiftKey) ==
    LET list == d.modals[id].focusableElements
    IN IF Len(list) = 0 THEN [doc |-> d, prevented |-> FALSE]
       ELSE IF ~shiftKey /\ d.focus = list[Len(list)]
       THEN [doc |-> focusOn(d, list[1]), prevented |-> TRUE]
       ELSE [doc |-> d, prevented |-> FALSE]

\* Modal.trapFocus: the document it leaves, and whether it called
\* preventDefault
trapFocus(d, id, shiftKey) ==
    LET list == d.modals[id].focusableElements
    IN IF Len(list) = 0 THEN [doc |-> d, prevented |-> FALSE]
       ELSE IF shiftKey /\ d.focus = list[1]
       THEN [doc |-> focusOn(d, list[Len(list)]), prevented |-> TRUE]
       ELSE IF ~shiftKey /\ d.focus = list[Len(list)]
       THEN [doc |-> focusOn(d, list[1]), prevented |-> TRUE]
       ELSE [doc |-> d, prevented |-> FALSE]

\* mutant: ModalManager.open that closes every other modal first
managerOpen_Exclusive(d, id) ==
    LET RECURSIVE closeOthers(_, _)
        closeOthers(dd, i) ==
            IF i > Len(ModalIds) THEN dd
            ELSE closeOthers(IF ModalIds[i] # id THEN close(dd, ModalIds[i])
                             ELSE dd, i + 1)
    IN IF id \in DOMAIN d.modals THEN open(closeOthers(d, 1), id) ELSE d

\* ModalManager.open(id): this.modals.get(id) is undefined for an id that
\* is not registered
managerOpen(d, id) == IF id \in DOMAIN d.modals THEN open(d, id) ELSE d

\* ModalManager.close(id)
managerClose(d, id) == IF id \in DOMAIN d.modals THEN close(d, id) ELSE d

\* ModalManager.closeAll: Map.forEach visits the modals in insertion order
RECURSIVE closeFrom(_, _)
closeFrom(d, i) ==
    IF i > Len(ModalIds) THEN d ELSE closeFrom(close(d, ModalIds[i]), i + 1)

closeAll(d) == closeFrom(d, 1)

\* App.openModal(modalId): document.getElementById finds the modal elements
openModal(d, id) ==
    IF id \in DOMAIN d.modals
    THEN [d EXCEPT !.modals[id].active = TRUE, !.bodyOverflow = "hidden"]
    ELSE d

\* App.closeModal: document.querySelector('.modal.active') is the first
\* such element in document order
closeModal(d) ==
    LET actives == {i \in 1..Len(ModalIds) : d.modals[ModalIds[i]].active}
    IN IF actives = {} THEN d
       ELSE LET first == CHOOSE i \in actives : \A j \in actives : i <= j
            IN [d EXCEPT !.modals[ModalIds[first]].active = FALSE,
                         !.bodyOverflow = ""]

\* the keydown listeners of the document for the Escape key: the one of
\* App.initModals, and one per modal (options.closeOnEsc is true)
RECURSIVE escapeFrom(_, _)
escapeFrom(d, i) ==
    IF i > Len(ModalIds) THEN d
    ELSE escapeFrom(IF d.modals[ModalIds[i]].isOpen
                    THEN close(d, ModalIds[i]) ELSE d, i + 1)

keydownEscape(d) == escapeFrom(closeModal(d), 1)

\* the elements the Tab key walks through, in document order
RECURSIVE modalTabOrder(_, _)
modalTabOrder(d, i) ==
    IF i > Len(ModalIds) THEN <<>>
    ELSE LET id == ModalIds[i]
         IN enabledFrom(id, d.modals[id].content, 1)
            \o << <<id, Len(d.modals[id].content) + 1>> >>
            \o modalTabOrder(d, i + 1)

TabOrder(d) == << <<"page", 1>>, <<"page", 2>> >> \o modalTabOrder(d, 1)

\* what the browser does with a Tab key nobody prevented: the focus moves
\* to the next (with Shift, the previous) element of the tab order
defaultTab(d, shiftKey) ==
    LET order == TabOrder(d)
        n == Len(order)
        at == {i \in 1..n : order[i] = d.focus}
        i == IF at = {} THEN (IF shiftKey THEN 1 ELSE n) ELSE CHOOSE k \in at : TRUE
    IN [d EXCEPT !.focus = IF shiftKey
                           THEN order[IF i = 1 THEN n ELSE i - 1]
                           ELSE order[IF i = n THEN 1 ELSE i + 1]]

\* a Tab keydown: the listener of the modal the focus is in calls trapFocus
keydownTab(d, shiftKey) ==
    IF d.focus[1] \in DOMAIN d.modals
    THEN LET r == trapFocus(d, d.focus[1], shiftKey)
         IN IF r.prevented THEN r.doc ELSE defaultTab(r.doc, shiftKey)
    ELSE defaultTab(d, shiftKey)

\* the callback of the setTimeout of open(); the modal element itself has
\* no tabindex, so this.modal.focus() focuses nothing
focusTimer(d, id) ==
    LET m == d.modals[id]
        d1 == [d EXCEPT !.modals[id].focusTimers = @ - 1]
    IN IF Len(m.focusableElements) > 0
       THEN focusOn(d1, m.focusableElements[1])
       ELSE d1

\* new ModalManager() on a page with the modals of ModalIds, which have the
\* same markup; ModalManager.init constructs them with the default options
InitModal ==
    /\ \E content \in ContentSet :
          modals = [id \in Range(ModalIds) |-> modalInit(id, content, TRUE)]
    /\ focus = NoElement
    /\ bodyOverflow = ""
    /\ modalLog = <<>>
    /\ NoSlider /\ NoResponsive /\ NoForm /\ NoTheme /\ NoNav /\ NoImages

SetDoc(d) ==
    /\ modals' = d.modals
    /\ focus' = d.focus
    /\ bodyOverflow' = d.bodyOverflow
    /\ modalLog' = d.modalLog
    /\ UNCHANGED <<sliderVars, resizeVars, lazyVars, formVars, themeVars>>

\* the log of modal events has room for k more entries
ModalRoom(k) == Len(modalLog) + k <= MaxModalEvents

OpenCount == Cardinality({id \in DOMAIN modals : modals[id].isOpen})

\* the user moves the focus with the pointer to an element of the page or
\* of an open modal
FocusElement(e) ==
    /\ \/ e \in PageElems
       \/ /\ e[1] \in DOMAIN modals
          /\ modals[e[1]].isOpen
          /\ e \in Range(TabOrder(Doc))
    /\ SetDoc(focusOn(Doc, e))

\* a click on a [data-modal-open] trigger, or a call of modalManager.open
ManagerOpen(id) ==
    /\ ModalRoom(1)
    /\ SetDoc(managerOpen(Doc, id))

\* a call of modalManager.close, with or without an id
ManagerClose(id) ==
    /\ ModalRoom(1)
    /\ SetDoc(managerClose(Doc, id))

ManagerCloseAll ==
    /\ ModalRoom(OpenCount)
    /\ SetDoc(closeAll(Doc))

\* a call of modal.toggle()
ModalToggle(id) ==
    /\ id \in DOMAIN modals
    /\ ModalRoom(1)
    /\ SetDoc(toggle(Doc, id))

\* a click on the close button of an open modal
CloseButtonClick(id) ==
    /\ id \in DOMAIN modals
    /\ modals[id].isOpen
    /\ ModalRoom(1)
    /\ SetDoc(close(Doc, id))

\* a click on the backdrop of an open modal (options.closeOnBackdrop)
BackdropClick(id) ==
    /\ id \in DOMAIN modals
    /\ modals[id].backdrops > 0
    /\ modals[id].backdropOpen
    /\ ModalRoom(1)
    /\ SetDoc(close(Doc, id))

KeyEscape ==
    /\ ModalRoom(OpenCount)
    /\ SetDoc(keydownEscape(Doc))

KeyTab(shiftKey) ==
    /\ focus # NoElement
    /\ SetDoc(keydownTab(Doc, shiftKey))

FocusTimer(id) ==
    /\ id \in DOMAIN modals
    /\ modals[id].focusTimers > 0
    /\ SetDoc(focusTimer(Doc, id))

\* a click on a trigger of App.initModals, or a call of app.openModal
AppOpenModal(id) ==
    /\ SetDoc(openModal(Doc, id))

\* a call of app.closeModal
AppCloseModal ==
    /\ SetDoc(closeModal(Doc))

NextModal ==
    \/ \E e \in PageElems \cup (Range(ModalIds) \X (1..(MaxElems + 1))) :
          FocusElement(e)
    \/ \E id \in CallIds : ManagerOpen(id)
    \/ \E id \in CallIds : ManagerClose(id)
    \/ ManagerCloseAll
    \/ \E id \in Range(ModalIds) : ModalToggle(id)
    \/ \E id \in Range(ModalIds) : CloseButtonClick(id)
    \/ \E id \in Range(ModalIds) : BackdropClick(id)
    \/ KeyEscape
    \/ \E shiftKey \in BOOLEAN : KeyTab(shiftKey)
    \/ \E id \in Range(ModalIds) : FocusTimer(id)

\* a page with the modals of ModalIds and the modal manager
SpecModal == InitModal /\ [][NextModal]_vars

\* the calls that open and close modals by the modal manager and by App,
\* and the timers they leave
NextModalApp ==
    \/ \E id \in CallIds : ManagerOpen(id)
    \/ \E id \in CallIds : ManagerClose(id)
    \/ ManagerCloseAll
    \/ KeyEscape
    \/ \E id \in Range(ModalIds) : FocusTimer(id)
    \/ \E id \in CallIds : AppOpenModal(id)
    \/ AppCloseModal

SpecModalApp == InitModal /\ [][NextModalApp]_vars

(* ------------------------------ dialogs ------------------------------- *)

MaxDialogs == 2         \* modals created by scripts while the page lives

\* the ids `modal-${Date.now()}` of the modals created one after the other,
\* at different times
DialogIds == <<"modal-1", "modal-2", "modal-3">>

\* the buttons of the markup of a dialog, none of them disabled: Cancel and
\* Confirm, or OK; a modal created by the page itself has no content
DialogContent(kind) ==
    IF kind = "confirm" THEN <<FALSE, FALSE>>
    ELSE IF kind = "alert" THEN <<FALSE>>
    ELSE <<>>

\* ModalManager.create with the options of confirmDialog, of alertDialog
\* or of the page: the modal object, entered in the registry under its id,
\* with the promise its dialog returned
create(d, id, kind) ==
    LET m == [modalInit(id, DialogContent(kind), TRUE) EXCEPT
                  !.options = [backdrop |-> TRUE,
                               closeOnBackdrop |-> kind # "confirm",
                               closeOnEsc |-> kind # "confirm"]]
             @@ [kind |-> kind,
                 role |-> TRUE,
                 closeButton |-> TRUE,
                 registered |-> TRUE,
                 promise |-> IF kind = "plain" THEN "none" ELSE "pending",
                 destroyTimers |-> 0]
    IN [d EXCEPT !.modals = (id :> m) @@ d.modals]

confirmDialog(d, id) == open(create(d, id, "confirm"), id)

alertDialog(d, id) == open(create(d, id, "alert"), id)

\* Modal.destroy: the modal element itself stays in the document
modalDestroy(d, id) ==
    LET d1 == IF d.modals[id].isOpen THEN close(d, id) ELSE d
    IN [d1 EXCEPT !.modals[id].backdrops = 0,
                  !.modals[id].closeButton = FALSE,
                  !.modals[id].openClass = FALSE,
                  !.modals[id].role = FALSE,
                  !.modals[id].ariaHidden = ""]

\* ModalManager.destroy(id)
managerDestroy(d, id) ==
    IF id \in DOMAIN d.modals /\ d.modals[id].registered
    THEN [modalDestroy(d, id) EXCEPT !.modals[id].registered = FALSE]
    ELSE d

\* the click listeners of the buttons of a dialog: close, start the timer
\* of destroy, resolve the promise (a promise is settled once)
buttonClick(d, id, value) ==
    [close(d, id) EXCEPT !.modals[id].destroyTimers = @ + 1,
                         !.modals[id].promise =
                             IF @ = "pending" THEN value ELSE @]

\* the callback of setTimeout(() => modal.destroy(), 300)
destroyTimer(d, id) ==
    [modalDestroy(d, id) EXCEPT !.modals[id].destroyTimers = @ - 1]

\* the keydown listeners of the document for the Escape key, one per modal
\* constructed with options.closeOnEsc, in the order of construction
RECURSIVE dialogEscape(_, _)
dialogEscape(d, i) ==
    IF i > Len(DialogIds) THEN d
    ELSE LET id == DialogIds[i]
         IN dialogEscape(IF /\ id \in DOMAIN d.modals
                            /\ d.modals[id].options.closeOnEsc
                            /\ d.modals[id].isOpen
                         THEN close(d, id) ELSE d, i + 1)

\* new ModalManager() on a page without [data-modal] elements; a dialog is
\* opened once and closed once, so the log of modal events stays short
InitDialog ==
    /\ modals = <<>>
    /\ focus = NoElement
    /\ bodyOverflow = ""
    /\ modalLog = <<>>
    /\ NoSlider /\ NoResponsive /\ NoForm /\ NoTheme /\ NoNav /\ NoImages

\* the id of the modal created next
FreshId == DialogIds[Cardinality(DOMAIN modals) + 1]

CanCreate == Cardinality(DOMAIN modals) < MaxDialogs

\* a script calls confirmDialog(message)
ConfirmDialog ==
    /\ CanCreate
    /\ SetDoc(confirmDialog(Doc, FreshId))

\* a script calls alertDialog(message)
AlertDialog ==
    /\ CanCreate
    /\ SetDoc(alertDialog(Doc, FreshId))

\* a script calls modalManager.create()
ManagerCreate ==
    /\ CanCreate
    /\ SetDoc(create(Doc, FreshId, "plain"))

\* a script calls modalManager.destroy(id)
ManagerDestroy(id) ==
    /\ SetDoc(managerDestroy(Doc, id))

\* a click on the Confirm, Cancel or OK button of a dialog that is shown
ButtonClick(id, value) ==
    /\ id \in DOMAIN modals
    /\ modals[id].isOpen
    /\ \/ modals[id].kind = "confirm" /\ value \in {"true", "false"}
       \/ modals[id].kind = "alert" /\ value = "undefined"
    /\ SetDoc(buttonClick(Doc, id, value))

\* a click on the close button that createCloseButton added
DialogCloseClick(id) ==
    /\ id \in DOMAIN modals
    /\ modals[id].isOpen /\ modals[id].closeButton
    /\ SetDoc(close(Doc, id))

\* a click on the backdrop of a modal with options.closeOnBackdrop
DialogBackdropClick(id) ==
    /\ id \in DOMAIN modals
    /\ modals[id].options.closeOnBackdrop
    /\ modals[id].backdrops > 0 /\ modals[id].backdropOpen
    /\ SetDoc(close(Doc, id))

DialogEscape ==
    /\ SetDoc(dialogEscape(Doc, 1))

\* the modal is closed when the timer fires: the button closed it, and
\* nothing opens a dialog again
DestroyTimer(id) ==
    /\ id \in DOMAIN modals
    /\ modals[id].destroyTimers > 0
    /\ SetDoc(destroyTimer(Doc, id))

NextDialog ==
    \/ ConfirmDialog
    \/ AlertDialog
    \/ ManagerCreate
    \/ \E id \in Range(DialogIds) \cup {UnknownId} : ManagerDestroy(id)
    \/ \E id \in Range(DialogIds) :
          \E value \in {"true", "false", "undefined"} : ButtonClick(id, value)
    \/ \E id \in Range(DialogIds) : DialogCloseClick(id)
    \/ \E id \in Range(DialogIds) : DialogBackdropClick(id)
    \/ DialogEscape
    \/ \E id \in Range(DialogIds) : DestroyTimer(id)
    \/ \E id \in Range(DialogIds) : FocusTimer(id)

\* the modal manager with the dialogs and modals that scripts create
SpecDialog == InitDialog /\ [][NextDialog]_vars

\* no handler and no timer callback that can run is put off for ever
FairSpecDialog == SpecDialog /\ WF_vars(NextDialog)

(* ---------------------------- validators ----------------------------- *)

MaxEmailLen == 6        \* characters typed into the email field
MaxPhoneLen == 12       \* characters typed into the phone field
MaxSeparators == 2      \* characters of the phone field that are no digits

MinDigits == 10         \* digits a phone number needs
MinLength == 10         \* characters a message needs

\* a string is the sequence of its characters
Digits == {"0", "1", "2", "3", "4", "5", "6", "7", "8", "9"}
Whitespace == {" "}

\* the characters typed into the two fields: a character of no class of its
\* own, '@', '.' and a blank for the email; a digit, a separator the phone
\* pattern of Utils knows, one it does not know and a blank for the phone
EmailChars == {"u", "@", ".", " "}
PhoneChars == {"5", "-", ".", " "}

\* the strings the properties of the specification name
UserAtExampleCom ==
    <<"u", "s", "e", "r", "@", "e", "x", "a", "m", "p", "l", "e", ".", "c", "o", "m">>
UserAtExample == <<"u", "s", "e", "r", "@", "e", "x", "a", "m", "p", "l", "e">>
UserDotExampleCom ==
    <<"u", "s", "e", "r", ".", "e", "x", "a", "m", "p", "l", "e", ".", "c", "o", "m">>

\* String.prototype.trim
RECURSIVE trimStart(_)
trimStart(s) ==
    IF s # <<>> /\ Head(s) \in Whitespace THEN trimStart(Tail(s)) ELSE s

RECURSIVE trimEnd(_)
trimEnd(s) ==
    IF s # <<>> /\ s[Len(s)] \in Whitespace
    THEN trimEnd(SubSeq(s, 1, Len(s) - 1))
    ELSE s

trim(s) == trimEnd(trimStart(s))

\* the pattern /^[^\s@]+@[^\s@]+\.[^\s@]+$/ as the automaton that reads it:
\* state 0 before the local part, 1 in it, 2 after the '@', 3 in the
\* domain, 4 after a '.' taken as the separator, 5 in the last part
emailStep(q, c) ==
    LET plain == c \notin Whitespace /\ c # "@"
    IN CASE q = 0 -> IF plain THEN {1} ELSE {}
         [] q = 1 -> IF plain THEN {1} ELSE IF c = "@" THEN {2} ELSE {}
         [] q = 2 -> IF plain THEN {3} ELSE {}
         [] q = 3 -> IF c = "." THEN {3, 4} ELSE IF plain THEN {3} ELSE {}
         [] q = 4 -> IF plain THEN {5} ELSE {}
         [] q = 5 -> IF plain THEN {5} ELSE {}

RECURSIVE emailRun(_, _, _)
emailRun(qs, s, i) ==
    IF i > Len(s) THEN qs
    ELSE emailRun(UNION {emailStep(q, s[i]) : q \in qs}, s, i + 1)

\* mutant: the pattern without the '.' and the last part
emailRegex_NoDot(s) == 3 \in emailRun({0}, s, 1)

\* regex.test(s) for the email pattern
emailRegex(s) == 5 \in emailRun({0}, s, 1)

\* Utils.isValidEmail
isValidEmail(email) == emailRegex(email)

\* the pattern /^[\d\s\-\+\(\)]+$/
phoneRegex(s) ==
    /\ Len(s) > 0
    /\ \A i \in 1..Len(s) :
          s[i] \in Digits \cup Whitespace \cup {"-", "+", "(", ")"}

\* s.replace(/\D/g, '')
RECURSIVE digitsOf(_)
digitsOf(s) ==
    IF s = <<>> THEN <<>>
    ELSE (IF Head(s) \in Digits THEN <<Head(s)>> ELSE <<>>) \o digitsOf(Tail(s))

\* Utils.isValidPhone
isValidPhone(phone) == phoneRegex(phone) /\ Len(digitsOf(phone)) >= MinDigits

\* the email rule of validateField on what the field holds: the rule passes
\* unless the trimmed value is not empty and fails the pattern
emailRule(raw) ==
    LET value == trim(raw)
    IN ~(value # <<>> /\ ~emailRegex(value))

\* the phone rule of validateField on what the field holds
phoneRule(raw) ==
    LET value == trim(raw)
    IN ~(value # <<>> /\ Len(digitsOf(value)) < MinDigits)

\* ContactForm.validateField: the value it returns. The rule of the service
\* field is the required rule under another message.
validateField(f) ==
    LET value == trim(f.value)
    IN IF f.type = "hidden" \/ f.name = "_honey" THEN TRUE
       ELSE /\ ~(f.required /\ value = <<>>)
            /\ f.name = "email" => emailRule(f.value)
            /\ f.name = "phone" => phoneRule(f.value)
            /\ f.name = "message" => (value = <<>> \/ Len(value) >= MinLength)

\* the contact form with the focus in its email or its phone field
InitForm ==
    /\ \E name \in {"email", "phone"}, required \in BOOLEAN :
          field = [name |-> name,
                   type |-> IF name = "email" THEN "email" ELSE "tel",
                   value |-> <<>>, required |-> required, error |-> FALSE]
    /\ form = [fields |-> <<>>, disabled |-> FALSE, sending |-> FALSE,
               defaultPrevented |-> FALSE]
    /\ NoSlider /\ NoResponsive /\ NoModals /\ NoTheme /\ NoNav /\ NoImages

\* the input listener of the field, after the user typed character c:
\* removeFieldError
FieldInput(c) ==
    /\ \/ /\ field.name = "email"
          /\ c \in EmailChars
          /\ Len(field.value) < MaxEmailLen
       \/ /\ field.name = "phone"
          /\ c \in PhoneChars
          /\ Len(field.value) < MaxPhoneLen
          /\ c \notin Digits =>
                Len(field.value) - Len(digitsOf(field.value)) < MaxSeparators
    /\ field' = [field EXCEPT !.value = Append(@, c), !.error = FALSE]
    /\ UNCHANGED <<form, sliderVars, resizeVars,
                   lazyVars, modalVars, themeVars>>

\* the blur listener of the field: validateField shows or removes the error
FieldBlur ==
    /\ field' = [field EXCEPT !.error = ~validateField(field)]
    /\ UNCHANGED <<form, sliderVars, resizeVars,
                   lazyVars, modalVars, themeVars>>

NextForm ==
    \/ \E c \in EmailChars \cup PhoneChars : FieldInput(c)
    \/ FieldBlur

\* the contact form while one field is typed into and left
SpecForm == InitForm /\ [][NextForm]_vars

\* a string of the shape local@domain.tld: three parts that are not empty
\* and hold neither whitespace nor '@'
EmailShape(s) ==
    \E i, j \in 1..Len(s) :
        /\ 1 < i /\ i + 1 < j /\ j < Len(s)
        /\ s[i] = "@"
        /\ s[j] = "."
        /\ \A k \in 1..Len(s) :
              /\ s[k] \notin Whitespace
              /\ k # i => s[k] # "@"

(* -------------------------- form submission --------------------------- *)

\* what the user may leave in a field of the contact form
FieldValues(name) ==
    IF name = "email"
    THEN {<<>>, <<" ">>, <<"u", "@", "u">>, <<"u", "@", "u", ".", "u">>}
    ELSE IF name = "phone"
    THEN {<<>>, <<"5", "-", "5">>, [i \in 1..MinDigits |-> "5"]}
    ELSE IF name = "message"
    THEN {<<>>, <<"h", "i">>, [i \in 1..MinLength |-> "u"]}
    ELSE {<<>>}

\* the input, textarea and select elements of the form, each in a parent
\* element of its own; error is the field's class 'error', messages the
\* number of .field-error elements in its parent
FormFields(required) ==
    LET f(name, type, req) ==
            [name |-> name, type |-> type, required |-> req, value |-> <<>>,
             error |-> FALSE, messages |-> 0]
    IN << f("email", "email", required[1]),
          f("phone", "tel", required[2]),
          f("message", "textarea", required[3]),
          f("_honey", "text", FALSE),
          f("_captcha", "hidden", FALSE) >>

\* ContactForm.removeFieldError
removeFieldError(f) ==
    [f EXCEPT !.error = FALSE, !.messages = IF @ > 0 THEN @ - 1 ELSE 0]

\* mutant: showFieldError that keeps the message the field shows already
showFieldError_NoRemove(f) ==
    [f EXCEPT !.error = TRUE, !.messages = @ + 1]

\* ContactForm.showFieldError
showFieldError(f) ==
    [removeFieldError(f) EXCEPT !.error = TRUE, !.messages = @ + 1]

\* ContactForm.validateField: what it does to the field
validatedField(f) ==
    IF f.type = "hidden" \/ f.name = "_honey" THEN f
    ELSE IF validateField(f) THEN removeFieldError(f)
    ELSE showFieldError(f)

\* ContactForm.handleSubmit on a submit event; the valid branch is
\* setLoadingState(true)
handleSubmit(fm) ==
    LET fields == [i \in DOMAIN fm.fields |-> validatedField(fm.fields[i])]
        isValid == \A i \in DOMAIN fm.fields : validateField(fm.fields[i])
    IN IF ~isValid
       THEN [fm EXCEPT !.fields = fields, !.defaultPrevented = TRUE]
       ELSE [fm EXCEPT !.fields = fields, !.defaultPrevented = FALSE,
                       !.disabled = TRUE, !.sending = TRUE]

\* the contact form as the page shows it first
InitSubmit ==
    /\ \E required \in [1..3 -> BOOLEAN] :
          form = [fields |-> FormFields(required), disabled |-> FALSE,
                  sending |-> FALSE, defaultPrevented |-> FALSE]
    /\ field = [name |-> "", type |-> "", value |-> <<>>, required |-> FALSE,
                error |-> FALSE]
    /\ NoSlider /\ NoResponsive /\ NoModals /\ NoTheme /\ NoNav /\ NoImages

\* the user edits field i until it holds value: the input listener removes
\* the field's error
FormInput(i, value) ==
    /\ i \in DOMAIN form.fields
    /\ ~form.sending
    /\ value \in FieldValues(form.fields[i].name)
    /\ value # form.fields[i].value
    /\ form' = [form EXCEPT
                  !.fields[i] = [removeFieldError(@) EXCEPT !.value = value]]
    /\ UNCHANGED <<field, sliderVars, resizeVars,
                   lazyVars, modalVars, themeVars>>

\* the blur listener of field i
FormBlur(i) ==
    /\ i \in DOMAIN form.fields
    /\ ~form.sending
    /\ form' = [form EXCEPT !.fields[i] = validatedField(@)]
    /\ UNCHANGED <<field, sliderVars, resizeVars,
                   lazyVars, modalVars, themeVars>>

\* the submit listener of the form; a disabled submit button submits nothing
FormSubmit ==
    /\ form.fields # <<>>
    /\ ~form.disabled
    /\ form' = handleSubmit(form)
    /\ UNCHANGED <<field, sliderVars, resizeVars,
                   lazyVars, modalVars, themeVars>>

\* the browser has posted the form and the user comes back to the page
FormReturn ==
    /\ form.sending
    /\ form' = [fields |-> [i \in DOMAIN form.fields |->
                              [form.fields[i] EXCEPT !.value = <<>>,
                                                     !.error = FALSE,
                                                     !.messages = 0]],
                disabled |-> FALSE, sending |-> FALSE,
                defaultPrevented |-> FALSE]
    /\ UNCHANGED <<field, sliderVars, resizeVars,
                   lazyVars, modalVars, themeVars>>

NextSubmit ==
    \/ \E i \in 1..5 : \E value \in FieldValues(form.fields[i].name) :
          FormInput(i, value)
    \/ \E i \in 1..5 : FormBlur(i)
    \/ FormSubmit
    \/ FormReturn

\* the contact form while it is filled in and submitted
SpecSubmit == InitSubmit /\ [][NextSubmit]_vars

\* the fields of the form that validateField rejects
Failing(fm) ==
    {i \in DOMAIN fm.fields :
        /\ fm.fields[i].type # "hidden"
        /\ ~validateField(fm.fields[i])}

(* ------------------------------ theme --------------------------------- *)

MaxToggles == 3         \* clicks on the theme toggle between two page loads

\* local storage works, refuses to write (quota), or refuses every access
StorageModes == {"ok", "readonly", "denied"}

\* what getStorage returns when nothing is stored or the access failed
Null == "null"

\* no item is stored under the key
Absent == <<"absent", "">>

\* JSON.stringify of a string is that string in quotes; JSON.parse takes the
\* quotes off and throws on a text that is not JSON
stringify(value) == <<"json", value>>
parses(item) == item[1] = "json"
parse(item) == item[2]

\* Utils.getStorage('theme'): localStorage.getItem throws when the access is
\* refused, JSON.parse throws on a text that is not JSON; both are caught
getStorage(t) ==
    LET getItem == IF t.storage = "denied" THEN <<"throws", "">> ELSE t.item
    IN IF getItem = <<"throws", "">> THEN Null
       ELSE IF getItem = Absent THEN Null
       ELSE IF parses(getItem) THEN parse(getItem) ELSE Null

\* mutant: setStorage without the try/catch
setStorage_NoCatch(t, value) ==
    IF t.storage = "ok" THEN [t EXCEPT !.item = stringify(value)]
    ELSE [t EXCEPT !.thrown = TRUE]

\* Utils.setStorage('theme', value): localStorage.setItem throws unless the
\* storage works; the exception is caught and logged
setStorage(t, value) ==
    LET setItem == IF t.storage = "ok"
                   THEN [t EXCEPT !.item = stringify(value)]
                   ELSE [t EXCEPT !.thrown = TRUE]
    IN IF setItem.thrown THEN [setItem EXCEPT !.thrown = FALSE] ELSE setItem

\* Utils.removeStorage('theme'): localStorage.removeItem throws when the
\* access is refused; the exception is caught and logged
removeStorage(t) ==
    LET removeItem == IF t.storage = "denied"
                      THEN [t EXCEPT !.thrown = TRUE]
                      ELSE [t EXCEPT !.item = Absent]
    IN IF removeItem.thrown THEN [removeItem EXCEPT !.thrown = FALSE]
       ELSE removeItem

\* Navigation.setTheme; an exception of setStorage would leave it before the
\* icons, and without the .sun and .moon icons in the toggle the icon
\* update throws a TypeError after the attribute and the storage are written
setTheme(t, value) ==
    LET t1 == setStorage([t EXCEPT !.attr = value, !.thrown = FALSE], value)
    IN IF t1.thrown THEN t1
       ELSE IF ~t.hasIcons THEN [t1 EXCEPT !.thrown = TRUE]
       ELSE [t1 EXCEPT !.sun = IF value = "dark" THEN "block" ELSE "none",
                       !.moon = IF value = "dark" THEN "none" ELSE "block"]

\* mutant: toggleTheme that reads the current theme from the storage
toggleTheme_FromStorage(t) ==
    setTheme(t, IF getStorage(t) = "dark" THEN "light" ELSE "dark")

\* Navigation.toggleTheme
toggleTheme(t) ==
    setTheme(t, IF t.attr = "dark" THEN "light" ELSE "dark")

\* mutant: initTheme that looks at the system preference only
initTheme_SystemOnly(t) ==
    LET t1 == setTheme(t, IF t.prefersDark THEN "dark" ELSE "light")
    IN IF t1.thrown THEN t1 ELSE [t1 EXCEPT !.listening = TRUE]

\* Navigation.initTheme; an exception of setTheme leaves it before the
\* listener for system theme changes is added
initTheme(t) ==
    LET saved == getStorage(t)
        value == IF saved # Null /\ saved # "" THEN saved
                 ELSE IF t.prefersDark THEN "dark" ELSE "light"
        t1 == setTheme(t, value)
    IN IF t1.thrown THEN t1 ELSE [t1 EXCEPT !.listening = TRUE]

\* the change listener of the prefers-color-scheme media query
systemChange(t, matches) ==
    LET saved == getStorage(t)
    IN IF saved # Null /\ saved # ""
       THEN t
       ELSE setTheme(t, IF matches THEN "dark" ELSE "light")

\* the page once the DOMContentLoaded listener has run nav.initTheme(), with
\* what the storage holds and what the browser allows; toggles counts the
\* clicks on the toggle since the load, userChose tells whether the user
\* ever clicked it
loaded(item, mode, prefersDark, hasIcons) ==
    LET t == initTheme([phase |-> "loaded",
                        item |-> item, storage |-> mode,
                        prefersDark |-> prefersDark, hasIcons |-> hasIcons,
                        attr |-> "", sun |-> "", moon |-> "",
                        listening |-> FALSE, thrown |-> FALSE,
                        toggles |-> 0, userChose |-> FALSE,
                        atLoad |-> [item |-> item, attr |-> ""]])
    IN [t EXCEPT !.atLoad = [item |-> t.item, attr |-> t.attr]]

\* the first visit of the page: nothing is stored yet
InitTheme ==
    /\ \E mode \in StorageModes, prefersDark \in BOOLEAN, hasIcons \in BOOLEAN :
          theme = loaded(Absent, mode, prefersDark, hasIcons)
    /\ NoSlider /\ NoResponsive /\ NoModals /\ NoForm /\ NoNav /\ NoImages

\* the click listener of the theme toggle
ThemeToggleClick ==
    /\ theme.toggles < MaxToggles
    /\ theme' = [toggleTheme(theme) EXCEPT !.toggles = @ + 1,
                                           !.userChose = TRUE]
    /\ UNCHANGED <<nav, sliderVars, resizeVars, lazyVars, modalVars, formVars>>

\* the system colour scheme changes; the listener runs if initTheme added it
SystemThemeChange(matches) ==
    /\ matches # theme.prefersDark
    /\ theme' = IF theme.listening
                THEN systemChange([theme EXCEPT !.prefersDark = matches], matches)
                ELSE [theme EXCEPT !.prefersDark = matches]
    /\ UNCHANGED <<nav, sliderVars, resizeVars, lazyVars, modalVars, formVars>>

\* the page is loaded again, with what the storage holds by now
Reload(mode) ==
    /\ theme' = [loaded(theme.item, mode, theme.prefersDark, theme.hasIcons)
                     EXCEPT !.userChose = theme.userChose]
    /\ UNCHANGED <<nav, sliderVars, resizeVars, lazyVars, modalVars, formVars>>

NextTheme ==
    \/ ThemeToggleClick
    \/ \E matches \in BOOLEAN : SystemThemeChange(matches)
    \/ \E mode \in StorageModes : Reload(mode)

\* the theme switch of the navigation bar over several visits of the page
SpecTheme == InitTheme /\ [][NextTheme]_vars

(* ------------------ mobile menu, scroll and resize --------------------- *)

Tick == 50              \* milliseconds between two looks at the clock
MaxTime == 300          \* milliseconds the clock runs

Limit == 100            \* Utils.throttle(..., 100) of the scroll listener
Wait == 250             \* Utils.debounce(..., 250) of the resize listener
MenuBreakpoint == 768   \* the menu closes above this window width
ShadowOffset == 50      \* the bar is shadowed below this scroll offset
LinkOffset == 100       \* setActiveLink looks this far below the offset
SectionHeight == 500    \* height of each of the two sections of the page

NoTimer == 0            \* no setTimeout is pending

ScrollOffsets == {0, 60, 600}
InnerWidths == {600, 1024}

\* Navigation.toggleMobileMenu
toggleMobileMenu(n) ==
    [n EXCEPT !.isMenuOpen = ~@,
              !.menuActive = ~@,
              !.toggleActive = ~@,
              !.bodyOverflow = IF ~n.isMenuOpen THEN "hidden" ELSE ""]

\* mutant: closeMobileMenu that forgets the toggle button
closeMobileMenu_MenuOnly(n) ==
    [n EXCEPT !.isMenuOpen = FALSE, !.menuActive = FALSE, !.bodyOverflow = ""]

\* Navigation.closeMobileMenu
closeMobileMenu(n) ==
    [n EXCEPT !.isMenuOpen = FALSE, !.menuActive = FALSE,
              !.toggleActive = FALSE, !.bodyOverflow = ""]

\* Navigation.handleNavClick on a link to an anchor; found: the anchor is in
\* the document
handleNavClick(n, found) ==
    IF found /\ n.isMenuOpen THEN closeMobileMenu(n) ELSE n

\* the click listener of the document; outside: the target is neither in
\* the menu nor in the toggle
documentClick(n, outside) ==
    IF n.isMenuOpen /\ outside THEN closeMobileMenu(n) ELSE n

\* Navigation.handleScroll followed by Navigation.setActiveLink, with
\* CONFIG.navigation.hideOnScroll off
handleScroll(n) ==
    LET position == n.pageYOffset + LinkOffset
        section == IF position < SectionHeight THEN 1
                   ELSE IF position < 2 * SectionHeight THEN 2 ELSE 0
    IN [n EXCEPT !.scrolled = n.pageYOffset > ShadowOffset,
                 !.lastScrollTop = n.pageYOffset,
                 !.activeLink = IF section # 0 THEN section ELSE @]

\* mutant: a throttle that never sets inThrottle
throttle_NoFlag(n) ==
    [handleScroll(n) EXCEPT !.invoked = Append(@, n.now)]

\* the function Utils.throttle returns for the scroll listener; invoked
\* lists the times at which it called the listener
throttle(n) ==
    IF ~n.inThrottle
    THEN [handleScroll(n) EXCEPT !.invoked = Append(@, n.now),
                                 !.inThrottle = TRUE,
                                 !.throttleTimer = n.now + Limit]
    ELSE n

\* the function Utils.debounce returns for the resize listener
debounce(n) == [n EXCEPT !.debounceTimer = n.now + Wait]

\* the resize listener, called by the timer of debounce
later(n) ==
    LET n1 == [n EXCEPT !.debounceTimer = NoTimer]
    IN IF n1.innerWidth > MenuBreakpoint /\ n1.isMenuOpen
       THEN closeMobileMenu(n1) ELSE n1

\* the page once Navigation is constructed: init has run handleScroll
InitNav ==
    /\ \E width \in InnerWidths, y \in ScrollOffsets :
          nav = handleScroll(
                  [phase |-> "loaded", isMenuOpen |-> FALSE,
                   menuActive |-> FALSE, toggleActive |-> FALSE,
                   bodyOverflow |-> "", innerWidth |-> width,
                   pageYOffset |-> y, scrolled |-> FALSE, lastScrollTop |-> 0,
                   activeLink |-> 0, now |-> 0, inThrottle |-> FALSE,
                   throttleTimer |-> NoTimer, debounceTimer |-> NoTimer,
                   invoked |-> <<>>, closedBy |-> "none"])
    /\ theme = [phase |-> "absent"]
    /\ NoSlider /\ NoResponsive /\ NoModals /\ NoForm /\ NoImages

NavUnchanged == UNCHANGED <<theme, sliderVars, resizeVars,
                            lazyVars, modalVars, formVars>>

\* history: what closed the menu last, if it is closed
ClosedBy(n, cause) ==
    [n EXCEPT !.closedBy = IF n.isMenuOpen THEN "none"
                           ELSE IF nav.isMenuOpen THEN cause ELSE @]

\* time passes
ClockTick ==
    /\ nav.now + Tick <= MaxTime
    /\ nav' = [nav EXCEPT !.now = @ + Tick]
    /\ NavUnchanged

\* a click on the menu toggle: its own listener, then the document's
MenuToggleClick ==
    /\ nav' = ClosedBy(documentClick(toggleMobileMenu(nav), FALSE), "toggle")
    /\ NavUnchanged

\* a click outside the menu and the toggle
OutsideClick ==
    /\ nav' = ClosedBy(documentClick(nav, TRUE), "outside")
    /\ NavUnchanged

\* a click on a .nav__link with an anchor href, inside or outside the menu:
\* its own listener, then the document's
NavLinkClick(found, inside) ==
    /\ nav' = ClosedBy(documentClick(handleNavClick(nav, found), ~inside), "link")
    /\ NavUnchanged

\* a scroll event at offset y
ScrollEvent(y) ==
    /\ nav' = throttle([nav EXCEPT !.pageYOffset = y])
    /\ NavUnchanged

\* the timer of throttle
ThrottleTimer ==
    /\ nav.throttleTimer # NoTimer
    /\ nav.now >= nav.throttleTimer
    /\ nav' = [nav EXCEPT !.inThrottle = FALSE, !.throttleTimer = NoTimer]
    /\ NavUnchanged

\* a resize event that leaves the window width at width
ResizeEvent(width) ==
    /\ nav' = debounce([nav EXCEPT !.innerWidth = width])
    /\ NavUnchanged

\* the timer of debounce
DebounceTimer ==
    /\ nav.debounceTimer # NoTimer
    /\ nav.now >= nav.debounceTimer
    /\ nav' = ClosedBy(later(nav), "resize")
    /\ NavUnchanged

NextNav ==
    \/ ClockTick
    \/ MenuToggleClick
    \/ OutsideClick
    \/ \E found, inside \in BOOLEAN : NavLinkClick(found, inside)
    \/ \E y \in ScrollOffsets : ScrollEvent(y)
    \/ ThrottleTimer
    \/ \E width \in InnerWidths : ResizeEvent(width)
    \/ DebounceTimer

\* the navigation bar while the page is scrolled, resized and clicked
SpecNav == InitNav /\ [][NextNav]_vars

\* the clock runs on and the timer of throttle fires when it is due
FairSpecNav == SpecNav /\ WF_vars(ClockTick) /\ WF_vars(ThrottleTimer)

(* --------------------------- lazy loading ----------------------------- *)

MaxImages == 2          \* img[data-src] elements of the page

\* what getAttribute returns for an attribute the element does not have
NoAttr == ""

\* an img[data-src] element as the page delivers it, without src and
\* srcset attributes, with or without a data-placeholder: its attributes
\* and classes, whether it is in view, which observers observe it, and the
\* Image that preloads it
lazyImage(placeholder) ==
    [dataSrc |-> "url", src |-> NoAttr,
     dataPlaceholder |-> IF placeholder THEN "placeholder" ELSE NoAttr,
     lazyLoading |-> FALSE, lazyLoaded |-> FALSE, lazyError |-> FALSE,
     loaded |-> FALSE,
     visible |-> FALSE, observedByLoader |-> TRUE, observedByApp |-> TRUE,
     preload |-> "none", preloadSrc |-> NoAttr]

\* LazyLoader.loadImage for an IMG element
loadImage(e) ==
    LET e1 == [e EXCEPT !.lazyLoading = TRUE]
    IN IF e.dataSrc # NoAttr
       THEN [e1 EXCEPT !.preload = "pending", !.preloadSrc = e.dataSrc]
       ELSE e1

\* LazyLoader.onImageLoaded
onImageLoaded(e) ==
    [e EXCEPT !.lazyLoading = FALSE, !.lazyLoaded = TRUE, !.dataSrc = NoAttr]

\* LazyLoader.onImageError
onImageError(e) ==
    [e EXCEPT !.lazyLoading = FALSE, !.lazyError = TRUE,
              !.src = IF e.dataPlaceholder # NoAttr THEN e.dataPlaceholder
                      ELSE @]

\* img.onload of loadImage
onload(e) == onImageLoaded([e EXCEPT !.src = e.preloadSrc, !.preload = "done"])

\* img.onerror of loadImage
onerror(e) == onImageError([e EXCEPT !.preload = "done"])

\* the callback of the observer of LazyLoader for an entry in view
loaderEntry(e) == [loadImage(e) EXCEPT !.observedByLoader = FALSE]

\* the callback of the observer of App.initLazyLoading for an entry in view
appEntry(e) ==
    LET src == IF e.dataSrc # NoAttr THEN e.dataSrc ELSE e.src
        e1 == IF src # NoAttr
              THEN [e EXCEPT !.src = src, !.dataSrc = NoAttr, !.loaded = TRUE]
              ELSE e
    IN [e1 EXCEPT !.observedByApp = FALSE]

\* the page once LazyLoader and App are constructed: both observers observe
\* every image, and no image is in view yet
InitLazy ==
    /\ \E placeholder \in BOOLEAN :
          images = [i \in 1..MaxImages |-> lazyImage(placeholder)]
    /\ NoSlider /\ NoResponsive /\ NoModals /\ NoForm /\ NoTheme /\ NoNav

LazyUnchanged ==
    UNCHANGED <<sliderVars, resizeVars, modalVars, formVars, themeVars>>

\* the image scrolls into the root margin of the observers
BecomeVisible(i) ==
    /\ ~images[i].visible
    /\ images' = [images EXCEPT ![i].visible = TRUE]
    /\ LazyUnchanged

LoaderCallback(i) ==
    /\ images[i].visible /\ images[i].observedByLoader
    /\ images' = [images EXCEPT ![i] = loaderEntry(@)]
    /\ LazyUnchanged

AppCallback(i) ==
    /\ images[i].visible /\ images[i].observedByApp
    /\ images' = [images EXCEPT ![i] = appEntry(@)]
    /\ LazyUnchanged

\* the preload succeeded
ImageOnload(i) ==
    /\ images[i].preload = "pending"
    /\ images' = [images EXCEPT ![i] = onload(@)]
    /\ LazyUnchanged

\* the preload failed
ImageOnerror(i) ==
    /\ images[i].preload = "pending"
    /\ images' = [images EXCEPT ![i] = onerror(@)]
    /\ LazyUnchanged

NextLazy ==
    \E i \in 1..MaxImages :
        \/ BecomeVisible(i)
        \/ LoaderCallback(i)
        \/ AppCallback(i)
        \/ ImageOnload(i)
        \/ ImageOnerror(i)

\* the img[data-src] elements under the two observers
SpecLazy == InitLazy /\ [][NextLazy]_vars

\* every callback that is due runs, and every preload ends
FairSpecLazy ==
    /\ SpecLazy
    /\ \A i \in 1..MaxImages :
          /\ WF_vars(LoaderCallback(i))
          /\ WF_vars(AppCallback(i))
          /\ WF_vars(ImageOnload(i) \/ ImageOnerror(i))

(* ------------------------ steps the claims name ----------------------- *)

\* a step in which next() is invoked by an arrow, a key or the autoplay timer
NextStep == ArrowNextClick \/ KeyArrowRight \/ AutoplayTick

\* a step in which prev() is invoked by an arrow or a key
PrevStep == ArrowPrevClick \/ KeyArrowLeft

\* a step in which a dot calls goToSlide(i)
DotStep == \E i \in 0..(MaxSlides - 1) : DotClick(i)

\* a step in which handleEnd runs with isDragging set
ReleaseStep == HandleEnd

\* the difference handleEnd computes
Diff == drag.currentX - drag.startX

\* a step in which goToSlide, next or prev is called
NavCall == NextStep \/ PrevStep \/ DotStep \/ ReleaseStep

\* the index next() and prev() are expected to go to from index c
ExpectedNext(c) ==
    IF c + options.slidesToScroll >= totalSlides
    THEN (IF options.infinite THEN 0 ELSE totalSlides - 1)
    ELSE c + options.slidesToScroll

ExpectedPrev(c) ==
    IF c - options.slidesToScroll < 0
    THEN (IF options.infinite THEN totalSlides - 1 ELSE 0)
    ELSE c - options.slidesToScroll

LastEvent == events[Len(events)]

\* the number of calls of goToSlide accepted in a step: each accepted call
\* schedules one lock release timer, and the timer callback consumes one
AcceptedCalls ==
    slider'.releaseTimers - slider.releaseTimers + (IF ReleaseTimer THEN 1 ELSE 0)

(* ------------------------------- claims ------------------------------- *)

\* C1: with infinite mode disabled, every state reachable by next(), prev(),
\* dot clicks, keyboard arrows, autoplay ticks, drag releases and timer
\* firings has 0 <= currentSlide < totalSlides.
C1_IndexInRange ==
    ~options.infinite => (0 <= currentSlide /\ currentSlide < totalSlides)

\* next() was called at or near the last slide and the index was clamped:
\* the log shows the last index twice in a row
C1_Witness ==
    /\ ~options.infinite
    /\ totalSlides >= 2
    /\ Len(events) >= 3
    /\ currentSlide = totalSlides - 1
    /\ LastEvent = totalSlides - 1
    /\ events[Len(events) - 1] = totalSlides - 1

\* C2 as stated: from every reachable state with 0 < currentSlide <
\* totalSlides - 1, next() followed by prev() leaves currentSlide unchanged.
C2_Original ==
    (0 < currentSlide /\ currentSlide < totalSlides - 1)
        => prev(next(slider)).currentSlide = currentSlide

\* C2 as amended: from every reachable state in which the lock is free,
\* 0 < currentSlide < totalSlides - 1 and currentSlide + slidesToScroll <=
\* totalSlides - 1, next(), then the firing of the transition timer, then
\* prev() leave currentSlide equal to its value before next().
C2_RoundTrip ==
    ( /\ ~isAnimating
      /\ 0 < currentSlide /\ currentSlide < totalSlides - 1
      /\ currentSlide + options.slidesToScroll <= totalSlides - 1 )
        => prev(releaseLock(next(slider))).currentSlide = currentSlide

\* a state away from both ends with the lock free, reached by a dot click
\* or a step: from it next() is accepted and moves on, and the round trip
\* logs the index after next() and then the index it started from
C2_Witness ==
    /\ ~isAnimating
    /\ 0 < currentSlide /\ currentSlide < totalSlides - 1
    /\ currentSlide + options.slidesToScroll <= totalSlides - 1
    /\ events = <<0, currentSlide>>
    /\ next(slider).currentSlide = currentSlide + options.slidesToScroll
    /\ prev(releaseLock(next(slider))).events =
           <<0, currentSlide, currentSlide + options.slidesToScroll, currentSlide>>

\* C3 as stated: a release after at least one move, with |last move - press|
\* not above swipeThreshold, leaves currentSlide equal to its value at the
\* press.
C3_Original ==
    [][ ( /\ ReleaseStep
          /\ gesture.phase = "moved"
          /\ Abs(Diff) <= options.swipeThreshold )
            => currentSlide' = gesture.pressSlide ]_vars

\* C3 as amended: such a release leaves currentSlide equal to its value
\* just before the release, whether or not a transition is in flight.
C3_ReleaseKeepsIndex ==
    [][ ( /\ ReleaseStep
          /\ gesture.phase = "moved"
          /\ Abs(Diff) <= options.swipeThreshold )
            => currentSlide' = currentSlide ]_vars

\* a drag of exactly swipeThreshold pixels was released (handleEnd set the
\* cursor) with the lock free, away from the first slide: goToSlide put the
\* track back on the slide
C3_Witness ==
    /\ cursor = "grab"
    /\ ~drag.isDragging
    /\ Abs(Diff) = options.swipeThreshold
    /\ drag.currentX # 0
    /\ currentSlide > 0
    /\ isAnimating
    /\ slider.transform = 0 - currentSlide * SlideWidth

\* C4: while isAnimating is true a call of goToSlide, next or prev changes
\* nothing (index, track offset, active slide and dot, events, timers), and
\* the firing of the transition timer only releases the lock: it does not
\* run a call that was dropped.
C4_DroppedNotQueued ==
    [][ /\ (isAnimating /\ slider' # slider) => ~NavCall
        /\ (slider'.isAnimating # isAnimating /\ currentSlide \in 0..(totalSlides - 1)
              /\ ReleaseTimer)
              => slider' = [slider EXCEPT !.isAnimating = FALSE,
                                          !.releaseTimers = @ - 1] ]_vars

\* a drag was released during a transition: its goToSlide was dropped and
\* left the track at the pointer's delta
C4_Witness ==
    /\ isAnimating
    /\ cursor = "grab"
    /\ ~drag.isDragging
    /\ slider.releaseTimers = 1
    /\ slider.transform = Diff
    /\ slider.transform # 0 - currentSlide * SlideWidth

\* C5: a goToSlide(i) accepted with the lock free sets the track offset to
\* -i * slideWidth and sets isAnimating; whenever isAnimating holds a release
\* timer is pending, and isAnimating always becomes false again.
C5_LockReleased ==
    /\ [](isAnimating => slider.releaseTimers > 0)
    /\ [][ /\ (~isAnimating /\ NavCall)
                 => /\ isAnimating'
                    /\ slider'.transform = 0 - currentSlide' * SlideWidth
                    /\ slider'.releaseTimers = 1
            /\ \A i \in 0..(MaxSlides - 1) :
                 (~isAnimating /\ DotClick(i))
                     => /\ currentSlide' = i
                        /\ slider'.transform = 0 - i * SlideWidth ]_vars
    /\ (isAnimating ~> ~isAnimating)

\* a dot click to the last of at least three slides was accepted and its
\* lock has been released by the timer
C5_Witness ==
    /\ ~isAnimating
    /\ slider.releaseTimers = 0
    /\ totalSlides >= 3
    /\ events = <<0, totalSlides - 1>>
    /\ slider.transform = 0 - (totalSlides - 1) * SlideWidth

\* C6: in infinite mode with the lock free, next() goes to 0 when
\* currentSlide + slidesToScroll >= totalSlides and to currentSlide +
\* slidesToScroll otherwise; prev() goes to totalSlides - 1 when
\* currentSlide - slidesToScroll < 0 and to currentSlide - slidesToScroll
\* otherwise.
C6_InfiniteWrap ==
    [][ (options.infinite /\ ~isAnimating)
          => /\ currentSlide' #
                    (IF currentSlide + options.slidesToScroll >= totalSlides
                     THEN 0
                     ELSE currentSlide + options.slidesToScroll)
                  => ~NextStep
             /\ currentSlide' #
                    (IF currentSlide - options.slidesToScroll < 0
                     THEN totalSlides - 1
                     ELSE currentSlide - options.slidesToScroll)
                  => ~PrevStep ]_vars

\* with three slides and steps of two: prev() wrapped from 0 to the last
\* slide, next() wrapped from the last slide to 0
C6_Witness ==
    /\ options.infinite
    /\ options.slidesToScroll = 2
    /\ totalSlides = 3
    /\ events = <<0, 2, 0>>

\* C7: with infinite mode disabled, next() at the last slide and prev() at
\* the first slide leave currentSlide, isAnimating and the sequence of
\* dispatched slideChange events unchanged.
C7_NoOpAtBounds ==
    [][ ( /\ ~options.infinite
          /\ \/ NextStep /\ currentSlide = totalSlides - 1
             \/ PrevStep /\ currentSlide = 0 )
            => /\ currentSlide' = currentSlide
               /\ isAnimating' = isAnimating
               /\ events' = events ]_vars

C9_CloneJump ==
    /\ [](options.infinite /\ ~isAnimating
             => currentSlide \in 0..(totalSlides - 1))
    /\ [](slider.transition = "none" => slider.restoreTimers > 0)
    /\ [][ (options.infinite /\ ReleaseTimer)
              => /\ currentSlide = totalSlides
                      => /\ currentSlide' = 0
                         /\ slider'.transform = 0
                         /\ slider'.transition = "none"
                         /\ slider'.activeSlides = {0}
                 /\ currentSlide = 0 - 1
                      => /\ currentSlide' = totalSlides - 1
                         /\ slider'.transform = 0 - (totalSlides - 1) * SlideWidth
                         /\ slider'.transition = "none"
                         /\ slider'.activeSlides = {totalSlides - 1} ]_vars
    /\ (slider.transition = "none" ~> slider.transition = "transform")

\* the page went to the clone before the first slide, the timer fired, the
\* slider jumped to the last slide and the transition is switched on again
C9_Witness ==
    /\ options.infinite
    /\ totalSlides >= 2
    /\ events = <<0, 0 - 1, totalSlides - 1>>
    /\ currentSlide = totalSlides - 1
    /\ slider.transition = "transform"
    /\ ~isAnimating

\* C10: with autoplay and pauseOnHover, no autoplay interval is running
\* between a mouseenter and the next mouseleave, so no tick invokes next();
\* after the mouseleave exactly one interval is running again.
C10_PauseOnHover ==
    (options.autoplay /\ options.pauseOnHover)
        => /\ slider.intervalTimers = (IF hovering THEN 0 ELSE 1)
           /\ slider.autoplayInterval = ~hovering

\* the pointer entered while autoplay was running, and autoplay had
\* advanced the slider before
C10_Witness ==
    /\ options.autoplay /\ options.pauseOnHover
    /\ hovering
    /\ slider.intervalTimers = 0
    /\ Len(events) >= 2

\* C11: a viewport resize leaves the options overridden by the settings of
\* exactly one rule: the first rule, in ascending order of threshold, whose
\* threshold is >= the window width; no other rule is applied, whatever the
\* order of options.responsive.
C11_FirstMatchOnly ==
    [][\A width \in WindowWidths :
          Resize(width) =>
              options' = IF Matching(responsive, width) = {}
                         THEN options
                         ELSE assign(options,
                                     responsive[FirstAscending(responsive,
                                                               width)].settings)]_vars

\* C12: a goToSlide(i) called while the lock is free dispatches exactly one
\* slideChange event, carrying i; a goToSlide called while the lock is held
\* dispatches none.  Every step therefore appends as many events as it has
\* accepted calls, at most one, and that event carries the value
\* currentSlide took in the accepted call.
C12_EventPerAcceptedCall ==
    [][/\ \A i \in (0 - 1)..MaxSlides :
             /\ ~isAnimating =>
                   /\ goToSlide(slider, i).events = Append(events, i)
                   /\ goToSlide(slider, i).currentSlide = i
             /\ isAnimating => goToSlide(slider, i).events = events
       /\ AcceptedCalls \in {0, 1}
       /\ Len(events') = Len(events) + AcceptedCalls
       /\ AcceptedCalls = 1 => events' = Append(events, currentSlide')]_vars

\* three events have been dispatched, the last one by an accepted call that
\* left another slide than the first current, and a call made now is dropped
C12_Witness ==
    /\ Len(events) = MaxEvents
    /\ isAnimating
    /\ LastEvent = currentSlide
    /\ currentSlide > 0
    /\ goToSlide(slider, 0) = slider

\* C13: whatever open(), close() and toggle() calls have been made, and
\* after any further one, a modal owns at most one backdrop element; an
\* open() of a modal that is already open changes nothing: no backdrop, no
\* field, no modalOpen event.
C13_OneBackdrop ==
    \A id \in DOMAIN modals :
        /\ modals[id].backdrops <= 1
        /\ open(Doc, id).modals[id].backdrops <= 1
        /\ close(Doc, id).modals[id].backdrops <= 1
        /\ toggle(Doc, id).modals[id].backdrops <= 1
        /\ modals[id].isOpen =>
              /\ open(Doc, id) = Doc
              /\ managerOpen(Doc, id) = Doc

\* modal a was opened, closed and opened again, and owns its one backdrop
C13_Witness ==
    /\ modalLog = << <<"modalOpen", "a">>, <<"modalClose", "a">>,
                     <<"modalOpen", "a">> >>
    /\ modals["a"].isOpen
    /\ modals["a"].backdrops = 1
    /\ modals["a"].backdropOpen

\* C14: ModalManager.open(id) leaves the isOpen flag of every modal
\* registered under another id as it was, open ones included, and with an
\* id that is not registered it changes nothing.
C14_OpenFrame ==
    [][\A id \in CallIds :
          /\ \A j \in DOMAIN modals \ {id} :
                managerOpen(Doc, id).modals[j].isOpen = modals[j].isOpen
          /\ id \notin DOMAIN modals => managerOpen(Doc, id) = Doc
          /\ ManagerOpen(id) =>
                \A j \in DOMAIN modals \ {id} :
                    modals'[j].isOpen = modals[j].isOpen]_vars

\* modal b was opened while modal a was open, and both are open
C14_Witness ==
    /\ modalLog = << <<"modalOpen", "a">>, <<"modalOpen", "b">> >>
    /\ modals["a"].isOpen
    /\ modals["b"].isOpen

\* C15: open() stores the element that holds the focus when it is called,
\* the stored element is kept while the modal is open, and close() gives
\* the focus back to it, whatever other modals were opened or closed in
\* between.  When no element held the focus there is none to return to.
C15_FocusRestored ==
    [][\A id \in DOMAIN modals :
          LET saved == modals[id].focusedElementBeforeOpen
          IN /\ (~modals[id].isOpen /\ modals'[id].isOpen) =>
                    modals'[id].focusedElementBeforeOpen = focus
             /\ (modals[id].isOpen /\ modals'[id].isOpen) =>
                    modals'[id].focusedElementBeforeOpen = saved
             /\ (modals[id].isOpen /\ saved # NoElement) =>
                    /\ close(Doc, id).focus = saved
                    /\ (CloseButtonClick(id) \/ BackdropClick(id)
                            \/ ManagerClose(id)) => focus' = saved]_vars

\* modal a was opened from an element of the page, modal b after it, and
\* modal a has been closed: the focus is back on that element
C15_Witness ==
    /\ modalLog = << <<"modalOpen", "a">>, <<"modalOpen", "b">>,
                     <<"modalClose", "a">> >>
    /\ modals["a"].focusedElementBeforeOpen \in PageElems
    /\ modals["b"].focusedElementBeforeOpen[1] = "a"
    /\ focus = modals["a"].focusedElementBeforeOpen

\* C16: ModalManager.close() called without an id closes the modal that is
\* open: every modal with isOpen = true before the call has isOpen = false
\* after it.
C16_CloseWithoutId ==
    \A id \in DOMAIN modals :
        modals[id].isOpen => ~managerClose(Doc, NoId).modals[id].isOpen

\* C17: while a modal is open and the focus is on one of its focusable
\* elements, a Tab or Shift+Tab keydown leaves the focus on one of them:
\* Tab on the last one moves it to the first, Shift+Tab on the first one
\* to the last.
C17_FocusTrapped ==
    [][\A shiftKey \in BOOLEAN : \A id \in DOMAIN modals :
          LET list == modals[id].focusableElements
          IN (modals[id].isOpen /\ focus \in Range(list) /\ KeyTab(shiftKey)) =>
                /\ focus' \in Range(list)
                /\ (~shiftKey /\ focus = list[Len(list)]) => focus' = list[1]
                /\ (shiftKey /\ focus = list[1]) => focus' = list[Len(list)]]_vars

\* the focus is on the last focusable element of the open modal a, which
\* is not its first: Tab leads to the first one, and Shift+Tab on the first
\* one leads back
C17_Witness ==
    LET list == modals["a"].focusableElements
    IN /\ modals["a"].isOpen
       /\ Len(list) = MaxElems + 1
       /\ focus = list[Len(list)]
       /\ keydownTab(Doc, FALSE).focus = list[1]
       /\ keydownTab(keydownTab(Doc, FALSE), TRUE).focus = list[Len(list)]

\* C18: the email validator accepts exactly the strings of the shape
\* local@domain.tld without whitespace and without a second '@'; it accepts
\* user@example.com and rejects user@example and user.example.com; and
\* Utils.isValidEmail and the email rule of the contact form give the same
\* verdict on whatever the field holds.
C18_Original ==
    field.name = "email" =>
        /\ isValidEmail(field.value) <=> EmailShape(field.value)
        /\ isValidEmail(UserAtExampleCom)
        /\ ~isValidEmail(UserAtExample)
        /\ ~isValidEmail(UserDotExampleCom)
        /\ emailRule(field.value) <=> isValidEmail(field.value)

\* C18, amended: Utils.isValidEmail accepts exactly the strings of that
\* shape, accepts user@example.com and rejects user@example and
\* user.example.com; the email rule of the contact form gives, on v, the
\* verdict of Utils.isValidEmail on v trimmed, except that it passes a value
\* that is empty once trimmed; so the two agree on every value that is not
\* empty and neither starts nor ends with whitespace.
C18_EmailShape ==
    field.name = "email" =>
        LET v == field.value
        IN /\ isValidEmail(v) <=> EmailShape(v)
           /\ isValidEmail(UserAtExampleCom) /\ emailRule(UserAtExampleCom)
           /\ ~isValidEmail(UserAtExample) /\ ~emailRule(UserAtExample)
           /\ ~isValidEmail(UserDotExampleCom) /\ ~emailRule(UserDotExampleCom)
           /\ emailRule(v) <=> (trim(v) = <<>> \/ isValidEmail(trim(v)))
           /\ (v # <<>> /\ trim(v) = v) => (emailRule(v) <=> isValidEmail(v))
           /\ (field.error /\ ~field.required) => ~emailRule(v)

\* the field holds an address with a blank before it, and was left: the
\* form shows no error, while Utils.isValidEmail rejects what it holds
C18_Witness ==
    /\ field.name = "email"
    /\ field.value = <<" ", "u", "@", "u", ".", "u">>
    /\ ~field.error
    /\ emailRule(field.value)
    /\ ~isValidEmail(field.value)
    /\ isValidEmail(trim(field.value))

\* C19: the phone validator rejects whatever holds fewer than 10 digits and
\* accepts whatever holds at least 10 digits, with any characters between
\* the digits, and Utils.isValidPhone and the phone rule of the contact
\* form give the same verdict; stated for the values that are not blank.
C19_PhoneDigits ==
    (field.name = "phone" /\ trim(field.value) # <<>>) =>
        LET v == field.value
            n == Len(digitsOf(v))
        IN /\ n < MinDigits => (~isValidPhone(v) /\ ~phoneRule(v))
           /\ n >= MinDigits => (isValidPhone(v) /\ phoneRule(v))
           /\ isValidPhone(v) <=> phoneRule(v)

\* C20: in every state reached after initTheme, two calls of toggleTheme in
\* a row leave the item stored under 'theme' and the data-theme attribute
\* as they were before the two calls.
C20_ToggleTwice ==
    theme.phase = "loaded" =>
        LET twice == toggleTheme(toggleTheme(theme))
        IN /\ twice.item = theme.item
           /\ twice.attr = theme.attr
           /\ toggleTheme(theme).attr # theme.attr

\* the toggle was clicked twice since the page was loaded, the storage
\* works, and the stored theme and the attribute are those of the load
C20_Witness ==
    /\ theme.phase = "loaded"
    /\ theme.toggles = 2
    /\ theme.storage = "ok"
    /\ theme.item = theme.atLoad.item
    /\ theme.attr = theme.atLoad.attr
    /\ theme.item = stringify(theme.attr)
    /\ toggleTheme(theme).item # theme.item

\* C21 as stated: whenever an item is stored under 'theme', loading the page
\* applies the stored theme.
C21_Original ==
    theme.phase = "loaded" =>
        \A mode \in StorageModes :
            theme.item # Absent =>
                loaded(theme.item, mode, theme.prefersDark, theme.hasIcons).attr
                    = parse(theme.item)

\* C21: loading the page applies the theme stored under 'theme' when one is
\* stored and the storage can be read, and otherwise the system preference
\* ('dark' if prefers-color-scheme: dark matches, else 'light'); after
\* initTheme the data-theme attribute is always 'light' or 'dark'.
C21_InitTheme ==
    theme.phase = "loaded" =>
        /\ theme.attr \in {"light", "dark"}
        /\ \A mode \in StorageModes :
              loaded(theme.item, mode, theme.prefersDark, theme.hasIcons).attr
                  = IF theme.item # Absent /\ mode # "denied"
                    THEN parse(theme.item)
                    ELSE IF theme.prefersDark THEN "dark" ELSE "light"

\* the page was just loaded with a stored theme that differs from the
\* system preference, and shows the stored one
C21_Witness ==
    /\ theme.phase = "loaded"
    /\ theme.toggles = 0
    /\ theme.storage = "ok"
    /\ theme.atLoad.item = stringify("dark")
    /\ ~theme.prefersDark
    /\ theme.attr = "dark"
    /\ theme.item = theme.atLoad.item

\* C23: when the local storage throws, setStorage, getStorage and
\* removeStorage raise nothing: getStorage returns null, the stored item
\* stays as it is, and setTheme sets data-theme to the requested theme and
\* goes on to the icons as it does when the storage works.
C23_StorageFailure ==
    theme.phase = "loaded" =>
        \A value \in {"light", "dark"} :
            LET t == [theme EXCEPT !.thrown = FALSE]
                works == setTheme([t EXCEPT !.storage = "ok"], value)
            IN /\ theme.storage # "ok" =>
                    /\ ~setStorage(t, value).thrown
                    /\ setStorage(t, value).item = theme.item
                    /\ setTheme(t, value).attr = value
                    /\ setTheme(t, value).item = theme.item
                    /\ setTheme(t, value).thrown = works.thrown
                    /\ setTheme(t, value).sun = works.sun
                    /\ setTheme(t, value).moon = works.moon
               /\ theme.storage = "denied" =>
                    /\ getStorage(t) = Null
                    /\ ~removeStorage(t).thrown
                    /\ removeStorage(t).item = theme.item

\* the storage holds a theme from an earlier visit and refuses every access;
\* the toggle was clicked, the attribute changed and the item did not
C23_Witness ==
    /\ theme.phase = "loaded"
    /\ theme.storage = "denied"
    /\ theme.hasIcons
    /\ theme.toggles = 1
    /\ theme.item = stringify("dark")
    /\ theme.attr # theme.atLoad.attr
    /\ theme.item = theme.atLoad.item
    /\ ~theme.thrown
    /\ theme.sun = (IF theme.attr = "dark" THEN "block" ELSE "none")

\* C22: a submit of the contact form is blocked (preventDefault is called,
\* the submit button stays enabled) exactly when a field that is not hidden
\* fails validation, and every failing field then shows exactly one inline
\* error message; when every field passes, the default is not prevented and
\* the submit button is disabled in its sending state.
C22_SubmitBlocked ==
    [][FormSubmit =>
         /\ form'.defaultPrevented <=> Failing(form) # {}
         /\ form'.defaultPrevented => (~form'.disabled /\ ~form'.sending)
         /\ ~form'.defaultPrevented => (form'.disabled /\ form'.sending)
         /\ \A i \in DOMAIN form.fields :
               /\ form'.fields[i].value = form.fields[i].value
               /\ form'.fields[i].error <=> i \in Failing(form)
               /\ form'.fields[i].messages = IF i \in Failing(form) THEN 1 ELSE 0
    ]_vars

\* a blocked submit: the email field and the message field fail and show
\* one message each, the phone field is filled in and shows none
C22_Witness ==
    /\ form.fields # <<>>
    /\ form.defaultPrevented
    /\ ~form.disabled
    /\ Failing(form) = {1, 3}
    /\ form.fields[1].messages = 1
    /\ form.fields[3].messages = 1
    /\ form.fields[2].value # <<>>
    /\ form.fields[2].messages = 0

\* C24: the listener wrapped by Utils.throttle(func, limit) runs at most
\* once in any window of length limit: a call outside the throttle runs it
\* at once, a call while the timer of the throttle is pending is dropped,
\* and nothing but a call runs it, so a dropped call is never made up for.
C24_Throttle ==
    [][/\ \A i \in 1..(Len(nav'.invoked) - 1) :
             nav'.invoked[i + 1] - nav'.invoked[i] >= Limit
       /\ \A y \in ScrollOffsets :
             ScrollEvent(y) =>
                 IF nav.inThrottle
                 THEN /\ nav'.invoked = nav.invoked
                      /\ nav'.lastScrollTop = nav.lastScrollTop
                      /\ nav'.throttleTimer = nav.throttleTimer
                 ELSE /\ nav'.invoked = Append(nav.invoked, nav.now)
                      /\ nav'.lastScrollTop = y
       /\ (\A y \in ScrollOffsets : ~ScrollEvent(y)) =>
             nav'.invoked = nav.invoked
    ]_vars

\* the listener ran twice, the second time as soon as the throttle allowed,
\* and the scroll event that came last was dropped
C24_Witness ==
    /\ nav.phase = "loaded"
    /\ Len(nav.invoked) = 2
    /\ nav.invoked[2] - nav.invoked[1] = Limit
    /\ nav.inThrottle
    /\ nav.now > nav.invoked[2]
    /\ nav.lastScrollTop # nav.pageYOffset

\* C25: whatever toggle clicks, outside clicks, nav-link clicks and debounced
\* resizes happen, isMenuOpen is true exactly when the menu and the toggle
\* carry the class 'active'; an outside click, and the debounced resize
\* listener finding the window wider than 768px, leave the menu closed.
C25_MenuInSync ==
    [][/\ nav.menuActive = nav.isMenuOpen
       /\ nav.toggleActive = nav.isMenuOpen
       /\ nav'.menuActive = nav'.isMenuOpen
       /\ nav'.toggleActive = nav'.isMenuOpen
       /\ OutsideClick => ~nav'.isMenuOpen
       /\ (DebounceTimer /\ nav.innerWidth > MenuBreakpoint) =>
             ~nav'.isMenuOpen
    ]_vars

\* the menu was open when the debounced resize listener found the window
\* wider than 768px, and is closed now
C25_Witness ==
    /\ nav.phase = "loaded"
    /\ nav.closedBy = "resize"
    /\ ~nav.isMenuOpen
    /\ ~nav.menuActive
    /\ ~nav.toggleActive
    /\ nav.bodyOverflow = ""
    /\ nav.innerWidth > MenuBreakpoint

\* C26: a press on the track followed directly by a release, without a
\* pointer move in between, does not change currentSlide and invokes
\* neither next() nor prev(): the release finds no distance above the
\* swipe threshold.
C26_ClickKeepsSlide ==
    [][(HandleEnd /\ gesture.phase = "pressed") =>
           /\ slider'.currentSlide = slider.currentSlide
           /\ Abs(drag.currentX - drag.startX) <= options.swipeThreshold
    ]_vars

\* C27: when no drag is in progress and no transition is in flight, the
\* offset of the track is -currentSlide * slideWidth; a release, also one
\* under the transition lock, does not leave the track at the distance the
\* pointer moved.
C27_TrackAtSlide ==
    (/\ slider.totalSlides > 0
     /\ ~drag.isDragging
     /\ ~slider.isAnimating
     /\ slider.releaseTimers = 0)
        => slider.transform = 0 - slider.currentSlide * SlideWidth

\* C28: once destroy() has run, no event of the user interface and no
\* pending timer starts an autoplay timer or changes currentSlide.
C28_InertAfterDestroy ==
    [][(slider.destroyed /\ Next) =>
           /\ slider'.intervalTimers = 0
           /\ ~slider'.autoplayInterval
           /\ slider'.currentSlide = slider.currentSlide
    ]_vars

\* C29: whatever startAutoplay(), stopAutoplay(), mouseenter, mouseleave and
\* destroy() happen, at most one autoplay interval timer exists, and
\* autoplayInterval is set exactly when that timer exists.
C29_OneInterval ==
    /\ slider.intervalTimers <= 1
    /\ slider.autoplayInterval <=> slider.intervalTimers = 1

\* the slider was destroyed and the autoplay was started again, by a
\* mouseleave or by the page, while the pointer is outside the slider
C29_Witness ==
    /\ slider.destroyed
    /\ options.autoplay /\ options.pauseOnHover
    /\ ~hovering
    /\ slider.autoplayInterval
    /\ slider.intervalTimers = 1

C31_ScrollLocked ==
    (\E id \in DOMAIN modals : modals[id].isOpen) => bodyOverflow = "hidden"

\* C32: once close() of a modal has returned, the focus timer that open()
\* left does not move the focus into the closed modal: when the timer fires
\* while the modal is closed, the focus is not on an element of that modal
\* afterwards.
C32_NoFocusIntoClosed ==
    [][\A id \in DOMAIN modals :
           (~modals[id].isOpen /\ FocusTimer(id)) => focus'[1] # id
    ]_vars

\* C33: every entry of the registry of the modal manager refers to a modal
\* that has not been destroyed: no registered modal has lost its backdrop
\* and its role and ARIA attributes to Modal.destroy().
C33_RegistryLive ==
    \A id \in DOMAIN modals :
        modals[id].registered =>
            modals[id].role /\ modals[id].backdrops > 0

\* C34: a dialog that has been closed while its promise is pending gets
\* its promise resolved in the end, whether a button of its content, its
\* close button, a click on its backdrop or the Escape key closed it.
C34_PromiseResolved ==
    \A id \in Range(DialogIds) :
        (/\ id \in DOMAIN modals
         /\ modals[id].registered
         /\ ~modals[id].isOpen
         /\ modals[id].promise = "pending")
            ~> (id \in DOMAIN modals /\ modals[id].promise # "pending")

\* C35: as long as the user never clicked the theme toggle, a change of the
\* system colour scheme after the load changes the applied theme to the
\* new system preference.
C35_FollowsSystem ==
    [][\A matches \in BOOLEAN :
           (~theme.userChose /\ SystemThemeChange(matches))
               => theme'.attr = IF matches THEN "dark" ELSE "light"
    ]_vars

\* C37: once the scroll events have stopped and the timer of the throttle
\* has run out, the navigation bar ends up carrying the class 'scrolled'
\* exactly when the final scroll offset is above 50, whatever scroll events
\* came before, those inside the throttle window included.
C37_ScrolledSettles ==
    <>[][\A y \in ScrollOffsets : ~ScrollEvent(y)]_vars
        => <>[](~nav.inThrottle
                    => (nav.scrolled <=> nav.pageYOffset > ShadowOffset))

\* C36: every img[data-src] element that comes into view leaves the state
\* 'lazy-loading' in the end and carries 'lazy-loaded' or 'lazy-error',
\* in whatever order the callbacks of the two observers and the onload and
\* onerror callbacks run.
C36_LazySettles ==
    \A i \in 1..MaxImages :
        images[i].visible
            ~> (/\ ~images[i].lazyLoading
                /\ images[i].lazyLoaded \/ images[i].lazyError)

=============================================================================
